---------------------------- MODULE Spec2Model ----------------------------
(***************************************************************************)
(* The Insignia leaderboard engine (src/src/insignia.cpp): root probing,   *)
(* title resolution, model loading, the SPIFFS cache and the rotation      *)
(* scheduler, as a state machine over the module's static variables.       *)
(*                                                                         *)
(* Strings are sequences of one-character strings, so that trimming, case  *)
(* folding, tokenizing and suffix tests are computed as the code computes  *)
(* them.  A URL is written with the symbols "h" (scheme and host), "/",    *)
(* "data", "xbox", "search.json", "by_id" and ".json" standing for the     *)
(* character runs of the same spelling.                                    *)
(***************************************************************************)
EXTENDS Integers, Sequences, FiniteSets, TLC

\* ------------------------------------------------------------------------
\* Arithmetic of uint32_t (millis(), lastFetchMs, nextProbeAt, ...).  A
\* 32-bit word is the pair <<hi, lo>> of its 16-bit halves: the model checker's
\* integers are 32-bit signed and cannot hold 2^32.
\* ------------------------------------------------------------------------
Half == 65536

Norm32(hi, lo) == << (hi + (lo \div Half)) % Half, lo % Half >>

\* the word of a number 0 <= n < 2^31
W32(n) == << n \div Half, n % Half >>

\* the value of a 32-bit word below 2^31
Val32(w) == w[1] * Half + w[2]

Add32(a, b) == Norm32(a[1] + b[1], a[2] + b[2])

Sub32(a, b) == Norm32(a[1] - b[1], a[2] - b[2])

Lt32(a, b) == a[1] < b[1] \/ (a[1] = b[1] /\ a[2] < b[2])

Le32(a, b) == a = b \/ Lt32(a, b)

\* (uint32_t)(n * 1000UL) for a number 0 <= n < 2^31
MulK32(n) == Norm32((n \div Half) * 1000, (n % Half) * 1000)

Max(a, b) == IF a >= b THEN a ELSE b

Abs(a) == IF a >= 0 THEN a ELSE -a

\* ------------------------------------------------------------------------
\* Strings
\* ------------------------------------------------------------------------
EmptyStr == << >>

LowerSeq ==
  << "a","b","c","d","e","f","g","h","i","j","k","l","m",
     "n","o","p","q","r","s","t","u","v","w","x","y","z" >>

UpperSeq ==
  << "A","B","C","D","E","F","G","H","I","J","K","L","M",
     "N","O","P","Q","R","S","T","U","V","W","X","Y","Z" >>

DigitSeq == << "0","1","2","3","4","5","6","7","8","9" >>

LowerSet == { LowerSeq[i] : i \in 1..26 }

UpperSet == { UpperSeq[i] : i \in 1..26 }

DigitSet == { DigitSeq[i] : i \in 1..10 }

\* tolower() on the upper-case letters
LowerOf == [c \in UpperSet |-> LowerSeq[CHOOSE i \in 1..26 : UpperSeq[i] = c]]

DigitOf == [c \in DigitSet |-> (CHOOSE i \in 1..10 : DigitSeq[i] = c) - 1]

IsLower(c) == c \in LowerSet

IsUpper(c) == c \in UpperSet

IsDigit(c) == c \in DigitSet

DigitVal(c) == DigitOf[c]

\* isspace() of String::trim
IsSpace(c) == c \in {" ", "\t", "\n", "\r", "\f"}

ToLowerChar(c) == IF IsUpper(c) THEN LowerOf[c] ELSE c

\* String::substring(from, to) with 0-based from, exclusive to
Substr(s, from, to) ==
  IF from >= to THEN EmptyStr ELSE SubSeq(s, from + 1, to)

StartsWith(s, p) == Len(s) >= Len(p) /\ SubSeq(s, 1, Len(p)) = p

EndsWith(s, p) ==
  Len(s) >= Len(p) /\ SubSeq(s, Len(s) - Len(p) + 1, Len(s)) = p

\* String::indexOf(p, from): -1 when from is not inside s, else the least
\* 0-based position >= from where p occurs (strstr: an empty p occurs at from)
IndexOfFrom(s, p, from) ==
  LET hits == { i \in from..(Len(s) - Len(p)) : SubSeq(s, i + 1, i + Len(p)) = p }
  IN  IF from >= Len(s) \/ hits = {} THEN -1
      ELSE CHOOSE i \in hits : \A j \in hits : i <= j

IndexOf(s, p) == IndexOfFrom(s, p, 0)

\* String::lastIndexOf(c)
LastIndexOfChar(s, c) ==
  LET hits == { i \in 0..(Len(s) - 1) : s[i + 1] = c }
  IN  IF hits = {} THEN -1 ELSE CHOOSE i \in hits : \A j \in hits : i >= j

\* String::trim(): isspace characters removed at both ends
Trim(s) ==
  LET keep == { i \in 1..Len(s) : ~IsSpace(s[i]) }
  IN  IF keep = {} THEN EmptyStr
      ELSE SubSeq(s, CHOOSE i \in keep : \A j \in keep : i <= j,
                     CHOOSE i \in keep : \A j \in keep : i >= j)

\* String(int) for int >= 0
RECURSIVE IntToStr(_)
IntToStr(n) ==
  IF n < 10 THEN << DigitSeq[n + 1] >>
  ELSE IntToStr(n \div 10) \o << DigitSeq[(n % 10) + 1] >>

RECURSIVE Concat(_)
Concat(ss) == IF ss = << >> THEN EmptyStr ELSE Head(ss) \o Concat(Tail(ss))

SeqContains(ss, x) == \E i \in 1..Len(ss) : ss[i] = x

\* ------------------------------------------------------------------------
\* Normalizer (insignia.cpp 145-218)
\* ------------------------------------------------------------------------
lc(s) == [i \in 1..Len(s) |-> ToLowerChar(s[i])]

romanToInt(in) ==
  LET s == lc(in)
  IN  CASE s = <<"i">> -> 1
        [] s = <<"i","i">> -> 2
        [] s = <<"i","i","i">> -> 3
        [] s = <<"i","i","i","i">> \/ s = <<"i","v">> -> 4
        [] s = <<"v">> -> 5
        [] s = <<"v","i">> -> 6
        [] s = <<"v","i","i">> -> 7
        [] s = <<"v","i","i","i">> -> 8
        [] s = <<"i","x">> -> 9
        [] s = <<"x">> -> 10
        [] OTHER -> -1

FoldChar(c0) ==
  LET c == ToLowerChar(c0)
  IN  IF IsLower(c) \/ IsDigit(c) \/ c = " " THEN << c >>
      ELSE IF c = "&" THEN << " ", "a", "n", "d", " " >>
      ELSE << " " >>

asciiFoldKeepSpace(in) == Concat([i \in 1..Len(in) |-> FoldChar(in[i])])

RECURSIVE SqueezeRuns(_, _)
SqueezeRuns(s, prevSpace) ==
  IF s = << >> THEN EmptyStr
  ELSE IF Head(s) = " "
       THEN (IF prevSpace THEN EmptyStr ELSE << " " >>) \o SqueezeRuns(Tail(s), TRUE)
       ELSE << Head(s) >> \o SqueezeRuns(Tail(s), FALSE)

squeezeSpace(in) ==
  LET out == SqueezeRuns(in, FALSE)
      keep == { i \in 1..Len(out) : out[i] # " " }
  IN  IF keep = {} THEN EmptyStr
      ELSE SubSeq(out, CHOOSE i \in keep : \A j \in keep : i <= j,
                       CHOOSE i \in keep : \A j \in keep : i >= j)

\* the words of s separated by single characters of seps
RECURSIVE SplitOn(_, _, _)
SplitOn(s, seps, cur) ==
  IF s = << >> THEN (IF cur = << >> THEN << >> ELSE << cur >>)
  ELSE IF Head(s) \in seps
       THEN (IF cur = << >> THEN << >> ELSE << cur >>) \o SplitOn(Tail(s), seps, << >>)
       ELSE SplitOn(Tail(s), seps, Append(cur, Head(s)))

RomanTok(tok) ==
  LET r == romanToInt(tok) IN IF r > 0 THEN IntToStr(r) ELSE tok

tokenize(raw) ==
  LET s0 == lc(raw)
      s1 == IF Len(s0) > 1 /\ s0[1] = "x" /\ (IsLower(s0[2]) \/ IsDigit(s0[2]))
            THEN Substr(s0, 1, Len(s0)) ELSE s0
      s2 == IF StartsWith(s1, <<"t","h","e"," ">>) THEN Substr(s1, 4, Len(s1)) ELSE s1
      s3 == squeezeSpace(asciiFoldKeepSpace(s2))
      ws == SplitOn(s3, {" "}, << >>)
  IN  [k \in 1..Len(ws) |-> RomanTok(ws[k])]

normKey(raw) == Concat(tokenize(raw))

\* ------------------------------------------------------------------------
\* Family keys (insignia.cpp 220-262)
\* ------------------------------------------------------------------------
RegionWords ==
  { <<"n","t","s","c">>, <<"p","a","l">>, <<"u","s","a">>, <<"u","s">>,
    <<"j","a","p","a","n">>, <<"j","p","n">>, <<"g","e","r","m","a","n","y">>,
    <<"d","e">>, <<"e","u","r","o","p","e">>, <<"e","u">>, <<"a","s","i","a">>,
    <<"k","o","r">>, <<"k","o","r","e","a">>, <<"a","u">>,
    <<"a","u","s","t","r","a","l","i","a">> }

isRegionWord(tok) ==
  LET t0 == lc(tok)
      t  == IF EndsWith(t0, <<",">>) THEN SubSeq(t0, 1, Len(t0) - 1) ELSE t0
  IN  t \in RegionWords

familyKeyFromLabel(name) ==
  LET open  == LastIndexOfChar(name, "(")
      close == LastIndexOfChar(name, ")")
      paren == open >= 0 /\ close > open /\ close = Len(name) - 1
      toks  == IF paren THEN SplitOn(Substr(name, open + 1, close), {" ", ","}, << >>)
               ELSE << >>
      allRegion == toks # << >> /\ \A i \in 1..Len(toks) : isRegionWord(toks[i])
      s == IF paren /\ allRegion THEN Substr(name, 0, open) ELSE name
  IN  normKey(Trim(s))

SlugSuffixes ==
  << <<"-","n","t","s","c">>, <<"-","p","a","l">>, <<"-","u","s","a">>,
     <<"-","j","a","p","a","n">>, <<"-","j","p","n">>,
     <<"-","g","e","r","m","a","n","y">>, <<"-","e","u">>,
     <<"-","e","u","r","o","p","e">>, <<"-","a","s","i","a">>,
     <<"-","k","o","r">>, <<"-","k","o","r","e","a">> >>

familyKeyFromSlug(slug) ==
  LET s    == lc(slug)
      hits == { i \in 1..Len(SlugSuffixes) :
                  Len(s) > Len(SlugSuffixes[i]) /\ EndsWith(s, SlugSuffixes[i]) }
      cut  == IF hits = {} THEN s
              ELSE LET i == CHOOSE i \in hits : \A j \in hits : i <= j
                   IN  SubSeq(s, 1, Len(s) - Len(SlugSuffixes[i]))
      spaced == [i \in 1..Len(cut) |-> IF cut[i] = "-" THEN " " ELSE cut[i]]
  IN  normKey(spaced)

\* fam of an index entry, as both passes of resolveTitlePool compute it
FamilyOf(name, slug) ==
  LET fam == familyKeyFromLabel(name)
  IN  IF Len(fam) = 0 THEN familyKeyFromSlug(slug) ELSE fam

\* ------------------------------------------------------------------------
\* Scoring helpers (insignia.cpp 490-549)
\* ------------------------------------------------------------------------
MIN_ACCEPT_SCORE == 65

tokenOverlapScore(qtoks, ctoks) ==
  IF qtoks = << >> \/ ctoks = << >> THEN 0
  ELSE LET matches == Cardinality({ i \in 1..Len(qtoks) : SeqContains(ctoks, qtoks[i]) })
           s == matches * 12
       IN  IF s > 60 THEN 60 ELSE s

firstTokenBoost(qtoks, ctoks) ==
  IF qtoks = << >> \/ ctoks = << >> THEN 0
  ELSE IF qtoks[1] = ctoks[1] THEN 25 ELSE 0

GenericWords ==
  { <<"x","b","o","x">>, <<"l","i","v","e">>, <<"a","r","c","a","d","e">> }

isGenericXLA(ctoks) ==
  ctoks # << >> /\ \A i \in 1..Len(ctoks) : ctoks[i] \in GenericWords

tokenJaccardPenaltyShort(candNorm) == IF Len(candNorm) <= 6 THEN -20 ELSE 0

\* n / 2^k rounded to the nearest integer, ties to even (IEEE round-to-nearest)
RoundShift(n, k) ==
  LET d == 2^k
      q == n \div d
      r == n % d
  IN  IF 2 * r > d \/ (2 * r = d /\ q % 2 = 1) THEN q + 1 ELSE q

\* the least j with inter * 2^j >= uni
RECURSIVE BinExp(_, _)
BinExp(inter, uni) == IF inter >= uni THEN 0 ELSE 1 + BinExp(2 * inter, uni)

\* (int)(((float)inter / (float)uni) * 70.0f) in IEEE single precision, for
\* 0 < inter < uni < 128: the quotient is rounded to a 24-bit mantissa m * 2^-e,
\* the product m * 70 * 2^-e is rounded again to 24 bits, then truncated.
FloatJacc70(inter, uni) ==
  LET e  == 23 + BinExp(inter, uni)
      n  == inter * 2^e
      q0 == n \div uni
      r0 == n % uni
      m  == IF 2 * r0 > uni \/ (2 * r0 = uni /\ q0 % 2 = 1) THEN q0 + 1 ELSE q0
      p  == m * 70
      sh == IF p < 1073741824 THEN 6 ELSE 7
      p1 == RoundShift(p, sh)
  IN  p1 \div 2^(e - sh)

Bigrams(s) == { << s[i], s[i + 1] >> : i \in 1..(Len(s) - 1) }

bigramJaccardScore(a, b) ==
  IF Len(a) = 0 \/ Len(b) = 0 THEN 0
  ELSE LET A     == Bigrams(a)
           B     == Bigrams(b)
           inter == Cardinality(A \cap B)
           uni   == Cardinality(A) + Cardinality(B) - inter
       IN  IF uni = 0 \/ inter = 0 THEN 0
           ELSE IF inter = uni THEN 70
           ELSE FloatJacc70(inter, uni)

containsBonus(small, big) ==
  IF Len(small) = 0 \/ Len(big) = 0 THEN 0
  ELSE IF IndexOf(big, small) >= 0
       THEN (IF Len(small) >= 12 THEN 25
             ELSE IF Len(small) >= 8 THEN 22
             ELSE IF Len(small) >= 5 THEN 18 ELSE 15)
       ELSE 0

\* ------------------------------------------------------------------------
\* Resolution over a fetched index (insignia.cpp 597-766).  The body of
\* search.json is the sequence of its flat objects, each holding the string
\* fields extract_str_field finds ("" when absent; has_id says whether
\* "title_id" was found).
\* ------------------------------------------------------------------------
Max4(a, b, c, d) == Max(Max(a, b), Max(c, d))

SharesToken(qToks, cToks) == \E i \in 1..Len(qToks) : SeqContains(cToks, qToks[i])

\* the score and the reason of an entry from the normalized keys and tokens
\* of the query and of the entry's name and slug (lines 623-653)
ScoreOf(curApp, e, qNorm, qToks, nName, nSlug, tName, tSlug) ==
  LET stName == tokenOverlapScore(qToks, tName) + firstTokenBoost(qToks, tName)
      stSlug == tokenOverlapScore(qToks, tSlug) + firstTokenBoost(qToks, tSlug)
      raw == Max(Max(stName, stSlug),
                 Max(Max(bigramJaccardScore(qNorm, nName), bigramJaccardScore(qNorm, nSlug)),
                     Max4(containsBonus(qNorm, nName), containsBonus(qNorm, nSlug),
                          containsBonus(nName, qNorm), containsBonus(nSlug, qNorm))))
      pen == IF firstTokenBoost(qToks, tName) = 0 /\ firstTokenBoost(qToks, tSlug) = 0
             THEN tokenJaccardPenaltyShort(nName) ELSE 0
      gen == IF isGenericXLA(tName) /\ (qToks = << >> \/ qToks[1] # <<"x","b","o","x">>)
             THEN -35 ELSE 0
  IN  IF lc(e.name) = lc(curApp) THEN [score |-> 100, reason |-> "exact name"]
      ELSE IF Len(e.name_lc) > 0 /\ e.name_lc = lc(curApp)
           THEN [score |-> 98, reason |-> "exact name_lc"]
      ELSE IF lc(e.slug) = lc(curApp) THEN [score |-> 95, reason |-> "exact slug"]
      ELSE IF nName = qNorm THEN [score |-> 93, reason |-> "norm(name)"]
      ELSE IF nSlug = qNorm THEN [score |-> 91, reason |-> "norm(slug)"]
      ELSE [score |-> Max(raw + pen + gen, 0), reason |-> ""]

\* the hard gate of lines 655-667: a shared token, or one key inside the other
PassesGate(qNorm, qToks, nName, nSlug, tName, tSlug) ==
  \/ SharesToken(qToks, tName) \/ SharesToken(qToks, tSlug)
  \/ IndexOf(nName, qNorm) >= 0 \/ IndexOf(nSlug, qNorm) >= 0
  \/ IndexOf(qNorm, nName) >= 0 \/ IndexOf(qNorm, nSlug) >= 0

GatedScore(curApp, e, qNorm, qToks, nName, nSlug, tName, tSlug) ==
  IF PassesGate(qNorm, qToks, nName, nSlug, tName, tSlug)
  THEN ScoreOf(curApp, e, qNorm, qToks, nName, nSlug, tName, tSlug)
  ELSE [score |-> 0, reason |-> ""]

\* score and reason of one entry against the query (lines 618-674)
EntryScore(curApp, e) ==
  GatedScore(curApp, e, normKey(curApp), tokenize(curApp), normKey(e.name),
             normKey(e.slug), tokenize(e.name), tokenize(e.slug))

NoBest == [id |-> EmptyStr, name |-> EmptyStr, nlc |-> EmptyStr, slug |-> EmptyStr,
           fam |-> EmptyStr, score |-> 0, reason |-> ""]

\* the tie-breaking lambda of lines 682-693 on the differences of key length
\* da and db and the first-token matches af and bf of the entry and of the best
BetterOf(A, sc, e, da, db, af, bf) ==
  IF sc > A.score THEN TRUE
  ELSE IF sc < A.score THEN FALSE
  ELSE IF da # db THEN da < db
  ELSE IF af # bf THEN af
  ELSE Len(e.name) < Len(A.name)

FirstTokenSame(qT, cT) == qT # << >> /\ cT # << >> /\ qT[1] = cT[1]

KeyDistance(name, qNorm) == Abs(Len(normKey(name)) - Len(qNorm))

\* a comparison that lets every later acceptable entry replace the best
betterAlways(curApp, A, sc, e) == TRUE

\* entry e with score sc against the best A so far
better(curApp, A, sc, e) ==
  BetterOf(A, sc, e,
           KeyDistance(e.name, normKey(curApp)), KeyDistance(A.name, normKey(curApp)),
           FirstTokenSame(tokenize(curApp), tokenize(e.name)),
           FirstTokenSame(tokenize(curApp), tokenize(A.name)))

\* what entry e with score sr makes of the diagnostics (lines 676-680)
DiagsWith(diags, e, sr) ==
  IF sr.score > 0 /\ Len(diags) < 10
  THEN Append(diags, [id |-> e.title_id, name |-> e.name, slug |-> e.slug,
                      score |-> sr.score, reason |-> sr.reason])
  ELSE diags

\* what entry e with score sr makes of the best (lines 695-702)
BestWith(curApp, best, e, sr) ==
  IF sr.score >= MIN_ACCEPT_SCORE /\ (Len(best.id) = 0 \/ better(curApp, best, sr.score, e))
  THEN [id |-> e.title_id, name |-> e.name, nlc |-> e.name_lc,
        slug |-> e.slug, fam |-> FamilyOf(e.name, e.slug),
        score |-> sr.score, reason |-> sr.reason]
  ELSE best

\* one entry of pass 1: [best, diags] after it
ScanEntry(curApp, best, diags, e, sr) ==
  IF ~e.has_id THEN [best |-> best, diags |-> diags]
  ELSE [best |-> BestWith(curApp, best, e, sr), diags |-> DiagsWith(diags, e, sr)]

\* pass 1 (lines 606-703): the best entry and the bounded diagnostics
RECURSIVE ScanPass1(_, _, _)
ScanPass1(curApp, entries, acc) ==
  IF entries = << >> THEN acc
  ELSE ScanPass1(curApp, Tail(entries),
                 ScanEntry(curApp, acc.best, acc.diags, Head(entries),
                           EntryScore(curApp, Head(entries))))

\* a pass 2 that collects the ids of every family
RECURSIVE ScanPass2AnyFamily(_, _, _)
ScanPass2AnyFamily(entries, fam, pool) ==
  IF entries = << >> THEN pool
  ELSE LET e == Head(entries)
       IN  IF e.has_id /\ Len(e.title_id) > 0 /\ ~SeqContains(pool, e.title_id)
           THEN ScanPass2AnyFamily(Tail(entries), fam, Append(pool, e.title_id))
           ELSE ScanPass2AnyFamily(Tail(entries), fam, pool)

\* pass 2 (lines 717-744): the ids of the family of best, in index order
RECURSIVE ScanPass2(_, _, _)
ScanPass2(entries, fam, pool) ==
  IF entries = << >> THEN pool
  ELSE LET e == Head(entries)
       IN  IF e.has_id /\ FamilyOf(e.name, e.slug) = fam /\ Len(e.title_id) > 0
              /\ ~SeqContains(pool, e.title_id)
           THEN ScanPass2(Tail(entries), fam, Append(pool, e.title_id))
           ELSE ScanPass2(Tail(entries), fam, pool)

\* what resolveTitlePool computes from the body once it has one
PoolOf(best, fams) == IF fams = << >> THEN << best.id >> ELSE fams

\* lines 705-765 on the result p1 of pass 1
ResolveWith(entries, p1) ==
  IF Len(p1.best.id) = 0 \/ p1.best.score < MIN_ACCEPT_SCORE
  THEN [ok |-> FALSE, best |-> p1.best, diags |-> p1.diags, pool |-> << >>]
  ELSE [ok |-> TRUE, best |-> p1.best, diags |-> p1.diags,
        pool |-> PoolOf(p1.best, ScanPass2(entries, p1.best.fam, << >>))]

\* what resolveTitlePool computes from the body once it has one
ResolveScan(curApp, entries) ==
  ResolveWith(entries, ScanPass1(curApp, entries, [best |-> NoBest, diags |-> << >>]))

\* resolveTitlePool without the fetch (lines 581-584, then 597-766 on the
\* entries of the body): no query, or a query that normalizes to nothing,
\* is not scanned at all
Unscanned == [ok |-> FALSE, best |-> NoBest, diags |-> << >>, pool |-> << >>]

ResolveOf(curApp, entries) ==
  IF Len(curApp) = 0 \/ Len(normKey(curApp)) = 0 THEN Unscanned
  ELSE ResolveScan(curApp, entries)

\* the score pass 1 gives to each object of the index; an object without
\* title_id is skipped before it is scored (line 613)
ScoresOf(curApp, entries) ==
  [k \in DOMAIN entries |->
     IF entries[k].has_id THEN EntryScore(curApp, entries[k]).score ELSE 0]

\* ------------------------------------------------------------------------
\* Constants (insignia.cpp 60-93)
\* ------------------------------------------------------------------------
SCR_H == 64

RULE_Y == 14

CONTENT_TOP == RULE_Y + 2

LINE_H == 9

ASCENT_5x8 == 7

STEP_MS == 40

PIXELS_PER_STEP == 1

BOARD_MIN_DWELL_MS == 3000

FREEZE_MS == 750

MODEL_DWELL_MS == 12000

MAX_ROWS_PER_BOARD == 0

PROBE_SPACING_MS == 200

PROBE_BACKOFF_MS == 2000

FETCH_GAP_MS == 100

ROW_CAP == 1000

TTL_SEARCH_MS == W32(21600000)

TTL_BYID_MS == W32(120000)

DefaultMaxFiles == 32

DefaultMaxBytes == 131072

DefaultMaxAgeMs == W32(21600000)

CACHE_DIR == << "/", "insig" >>

\* ------------------------------------------------------------------------
\* The clock, kept in the state record as clk = [now, el, off]: now is the
\* 32-bit word millis() returns, el the time in ms the scenario has lasted
\* and off the seconds that passed in one go before it (a long idle period);
\* time(nullptr) counts whole seconds of both.
\* ------------------------------------------------------------------------
millis(s) == s.clk.now

TimeNow(s) == s.clk.off + s.clk.el \div 1000

Later(clk, d) == [clk EXCEPT !.now = Add32(@, W32(d)), !.el = @ + d]

\* ------------------------------------------------------------------------
\* A body is [parses, entries, doc, size]: whether deserializeJson accepts it,
\* the flat objects the index scanner finds in it, the document it parses to
\* and its length in bytes.
NoDoc == [game_title |-> EmptyStr, has_scoreboards |-> FALSE, scoreboards |-> << >>]

NoBody == [parses |-> FALSE, entries |-> << >>, doc |-> NoDoc, size |-> 0]

\* ------------------------------------------------------------------------
\* SPIFFS cache (insignia.cpp 294-390).  files maps each path under CACHE_DIR
\* to [body, mtime].  A state s is a record of the module's static variables;
\* o is the record of what the environment answers during the call.
\* ------------------------------------------------------------------------
BadKeyChars == { "/", "?", ":", "&", "=", "%", "#" }

sanitizeKey(url) ==
  LET k == [i \in 1..Len(url) |-> IF url[i] \in BadKeyChars THEN "_" ELSE url[i]]
  IN  CACHE_DIR \o (IF StartsWith(k, <<"/">>) THEN k ELSE <<"/">> \o k)

NoFiles == [p \in {} |-> 0]

RemoveFile(files, p) == [q \in (DOMAIN files) \ {p} |-> files[q]]

PutFile(files, p, e) == [q \in (DOMAIN files) \cup {p} |-> IF q = p THEN e ELSE files[q]]

RECURSIVE SumSizes(_, _)
SumSizes(files, ps) ==
  IF ps = {} THEN 0
  ELSE LET p == CHOOSE q \in ps : TRUE
       IN  files[p].body.size + SumSizes(files, ps \ {p})

\* dirSize: bytes of the files under CACHE_DIR (files holds only those)
dirSize(files) == SumSizes(files, DOMAIN files)

ensureFS(s, o) ==
  IF s.fsReady THEN s
  ELSE IF ~o.mount THEN s
  ELSE IF s.flushOnBoot
       THEN [s EXCEPT !.fsReady = TRUE, !.files = NoFiles, !.flushOnBoot = FALSE]
       ELSE [s EXCEPT !.fsReady = TRUE]

\* (nowt>0 && mtime>0) && (uint32_t)((nowt - mtime)*1000UL) > cacheMaxAgeMs
TooOld(nowt, mtime, maxAge) ==
  nowt > 0 /\ mtime > 0 /\ Lt32(maxAge, MulK32(nowt - mtime))

\* lines 345-366: remove oldest-first until both limits hold.  Entries of
\* equal mtime are removed in the order std::sort and the directory leave
\* them in, which the code does not fix: every order is an outcome.
RECURSIVE EvictOutcomes(_, _, _, _, _)
EvictOutcomes(files, left, nfiles, bytes, s) ==
  IF (nfiles <= s.cacheMaxFiles /\ bytes <= s.cacheMaxBytes) \/ left = {} THEN { files }
  ELSE LET oldest == { p \in left : \A q \in left : files[p].mtime <= files[q].mtime }
       IN  UNION { EvictOutcomes(RemoveFile(files, p), left \ {p},
                                 IF nfiles > 0 THEN nfiles - 1 ELSE 0,
                                 IF bytes >= files[p].body.size
                                 THEN bytes - files[p].body.size ELSE 0, s)
                   : p \in oldest }

\* the sets of files pruneCache can leave (fsReady holds)
pruneCache(s) ==
  LET nowt  == TimeNow(s)
      young == { p \in DOMAIN s.files : ~TooOld(nowt, s.files[p].mtime, s.cacheMaxAgeMs) }
      kept  == [p \in young |-> s.files[p]]
  IN  EvictOutcomes(kept, young, Cardinality(young), dirSize(kept), s)

\* a cacheWrite that writes the file although SPIFFS is not mounted
cacheWriteUnmounted(s, o, url, body) ==
  LET s1 == ensureFS(s, o)
  IN  { [s1 EXCEPT !.files = PutFile(s1.files, sanitizeKey(url),
                                     [body |-> body, mtime |-> TimeNow(s1)])] }

\* the states cacheWrite can leave; o.wr = "fail" is SPIFFS.open failing
cacheWrite(s, o, url, body) ==
  LET s1 == ensureFS(s, o)
      s2 == [s1 EXCEPT !.files = PutFile(s1.files, sanitizeKey(url),
                                         [body |-> body, mtime |-> TimeNow(s1)])]
  IN  IF ~s1.fsReady \/ o.wr = "fail" THEN { s1 }
      ELSE { [s2 EXCEPT !.files = f] : f \in pruneCache(s2) }

\* the value cacheWrite returns: f.print writes the whole body
cacheWriteOk(s, o) == ensureFS(s, o).fsReady /\ o.wr # "fail"

\* [s: the state after ensureFS, ok: the return value, out: the body read]
cacheRead(s, o, url, maxAgeMs, allowStaleIfNoNet) ==
  LET s1   == ensureFS(s, o)
      nowt == TimeNow(s1)
      path == sanitizeKey(url)
      has  == s1.fsReady /\ path \in DOMAIN s1.files
      f    == s1.files[path]
      fresh == f.mtime > 0 /\ nowt > 0 /\ Le32(MulK32(nowt - f.mtime), maxAgeMs)
  IN  IF ~has THEN [s |-> s1, ok |-> FALSE, out |-> NoBody]
      ELSE [s |-> s1, ok |-> fresh \/ allowStaleIfNoNet, out |-> f.body]

\* ------------------------------------------------------------------------
\* What a call leaves in tr, the record of the calls it made: the attempts
\* (probe, resolve, load), those that returned true (wins) and the URLs
\* fetched over HTTP, in order; since is the time in ms from the attempt
\* before the call to the call when it made one and there was one, else -1;
\* scan is what a resolve attempt that got a body found in it (lines 597-744);
\* steps are the steps a resolve or load attempt took to get its body (its
\* strict cache read, its HTTP GET, its stale cache read), each with the value
\* it returned.
\* ------------------------------------------------------------------------
NoScan == [entries |-> << >>, ok |-> FALSE, best |-> NoBest, diags |-> << >>, pool |-> << >>]

\* a direct call of the cache: the key and body passed, the value returned,
\* the body read, the limits passed to setCacheLimits
NoCacheCall ==
  [url |-> EmptyStr, body |-> NoBody, ok |-> FALSE, out |-> NoBody, limits |-> << >>]

NoTrace ==
  [attempts |-> << >>, wins |-> << >>, fetches |-> << >>, since |-> -1,
   scanned |-> FALSE, scan |-> NoScan, cache |-> NoCacheCall, steps |-> << >>]

\* the resolve attempt scanned the index entries and computed r from them
Scanned(s, entries, r) ==
  [s EXCEPT !.tr.scanned = TRUE,
            !.tr.scan = [entries |-> entries, ok |-> r.ok, best |-> r.best,
                         diags |-> r.diags, pool |-> r.pool]]

Attempt(s, kind) == [s EXCEPT !.tr.attempts = Append(@, kind)]

\* the attempt returned true
Won(s, kind) == [s EXCEPT !.tr.wins = Append(@, kind)]

\* httpGet (lines 394-407): the fetch is recorded and takes o.dur ms; o.http
\* says whether it returned status 200, and o.resp is the body it then returned
Fetched(s, o, url) ==
  [s EXCEPT !.tr.fetches = Append(@, url), !.clk = Later(@, o.dur)]

HttpOk(o) == o.http

\* a resolve or load attempt made the step op for url, which returned ok
Stepped(s, op, url, maxAgeMs, ok, body) ==
  [s EXCEPT !.tr.steps = Append(@, [op |-> op, url |-> url, maxAgeMs |-> maxAgeMs,
                                    ok |-> ok, body |-> body])]

\* deserializeJson succeeds on the body: into the 512-byte document of a probe
\* (lines 466, 479) for an index, into the 64 KB document of line 782 for a
\* by_id document
Parses(body) == body.parses

\* ------------------------------------------------------------------------
\* Root probing (insignia.cpp 410-487)
\* ------------------------------------------------------------------------
RECURSIVE StripSlashes(_)
StripSlashes(s) ==
  IF EndsWith(s, <<"/">>) THEN StripSlashes(SubSeq(s, 1, Len(s) - 1)) ELSE s

\* the lambda add of buildCandidateRoots
AddRoot(out, c) ==
  LET r == StripSlashes(c)
  IN  IF Len(r) > 0 /\ ~SeqContains(out, r) THEN Append(out, r) ELSE out

RECURSIVE AddBases(_, _)
AddBases(out, bases) ==
  IF bases = << >> THEN out
  ELSE LET b  == Trim(Head(bases))
           o1 == AddRoot(out, b)
           o2 == IF EndsWith(b, <<"/","data">>) THEN AddRoot(o1, SubSeq(b, 1, Len(b) - 2))
                 ELSE o1
           o3 == AddRoot(o2, b \o <<"/","xbox">>)
           o4 == AddRoot(o3, b \o <<"/","xbox","/","data">>)
       IN  IF Len(b) = 0 THEN AddBases(out, Tail(bases)) ELSE AddBases(o4, Tail(bases))

\* the comma-separated fields of csv, empty ones included
RECURSIVE SplitCsv(_, _)
SplitCsv(csv, cur) ==
  IF csv = << >> THEN << cur >>
  ELSE IF Head(csv) = "," THEN << cur >> \o SplitCsv(Tail(csv), << >>)
  ELSE SplitCsv(Tail(csv), Append(cur, Head(csv)))

buildCandidateRoots(base) ==
  LET csv == Trim(base)
  IN  IF Len(csv) = 0 THEN << >> ELSE AddBases(<< >>, SplitCsv(csv, << >>))

startProbingIfNeeded(s) ==
  IF s.probeList # << >> \/ Len(s.WORK_ROOT) > 0 THEN s
  ELSE [s EXCEPT !.probeList = buildCandidateRoots(s.BASE),
                 !.probeIdx = 0, !.nextProbeAt = W32(0)]

SearchUrl(root) == root \o << "/", "data", "/", "search.json" >>

ByIdUrl(root, titleId) ==
  root \o << "/", "data", "/", "by_id", "/" >> \o titleId \o << ".json" >>

\* a probe that would confirm a root on any HTTP 200, parseable or not
ProbeCandidateAcceptingAny(s, o, r) ==
  LET url == SearchUrl(r)
      cr  == cacheRead(s, o, url, TTL_SEARCH_MS, TRUE)
      s1  == Fetched(cr.s, o, url)
  IN  IF cr.ok THEN { Won([cr.s EXCEPT !.WORK_ROOT = r], "probe") }
      ELSE IF HttpOk(o)
           THEN { Won([x EXCEPT !.WORK_ROOT = r], "probe") : x \in cacheWrite(s1, o, url, o.resp) }
      ELSE { s1 }

\* lines 460-486: probe candidate r; the states the step can leave
ProbeCandidate(s, o, r) ==
  LET url == SearchUrl(r)
      cr  == cacheRead(s, o, url, TTL_SEARCH_MS, TRUE)
      s1  == Fetched(cr.s, o, url)
      Accept(x) == IF Parses(o.resp) THEN Won([x EXCEPT !.WORK_ROOT = r], "probe") ELSE x
  IN  IF cr.ok /\ Parses(cr.out) THEN { Won([cr.s EXCEPT !.WORK_ROOT = r], "probe") }
      ELSE IF HttpOk(o) THEN { Accept(x) : x \in cacheWrite(s1, o, url, o.resp) }
      ELSE { s1 }

\* a probe step that stops for good once every candidate has failed
stepProbeWorkRootOnce(s, o) ==
  LET now == millis(s)
      s1 == IF s.probeList = << >> THEN startProbingIfNeeded(s) ELSE s
      s2 == [s1 EXCEPT !.nextProbeAt = Add32(now, W32(PROBE_SPACING_MS))]
      s3 == Attempt([s2 EXCEPT !.probeIdx = @ + 1], "probe")
  IN  IF Len(s.WORK_ROOT) > 0 THEN { s }
      ELSE IF ~o.nr THEN { s }
      ELSE IF Lt32(now, s1.nextProbeAt) THEN { s1 }
      ELSE IF s2.probeIdx >= Len(s2.probeList) THEN { s2 }
      ELSE ProbeCandidate(s3, o, s2.probeList[s2.probeIdx + 1])

stepProbeWorkRoot(s, o) ==
  LET now == millis(s)
      s1 == IF s.probeList = << >> THEN startProbingIfNeeded(s) ELSE s
      s2 == [s1 EXCEPT !.nextProbeAt = Add32(now, W32(PROBE_SPACING_MS))]
      s3 == Attempt([s2 EXCEPT !.probeIdx = @ + 1], "probe")
  IN  IF Len(s.WORK_ROOT) > 0 THEN { s }
      ELSE IF ~o.nr THEN { s }
      ELSE IF Lt32(now, s1.nextProbeAt) THEN { s1 }
      ELSE IF s2.probeIdx >= Len(s2.probeList)
           THEN { [s2 EXCEPT !.nextProbeAt = Add32(now, W32(PROBE_BACKOFF_MS)),
                             !.probeIdx = 0] }
      ELSE ProbeCandidate(s3, o, s2.probeList[s2.probeIdx + 1])

\* ------------------------------------------------------------------------
\* Leaderboard documents (insignia.cpp 270-290, 798-928).  A parsed document
\* is [game_title, has_scoreboards, scoreboards]: scoreboards is the sequence
\* of [is_object, name, columns, has_rows, rows] when the document holds the
\* array (has_scoreboards), and rows the sequence of rows [kind, pairs, vals,
\* val] when the scoreboard holds one (has_rows): a keyed object (pairs of key
\* and value, in order), a positional array (vals) or a scalar (val).  Every
\* value is the string j2s gives for it ("" for null or missing).
\* ------------------------------------------------------------------------
RANK_KEYS ==
  << <<"r","a","n","k">>, <<"#">>, <<"p","o","s">>,
     <<"p","o","s","i","t","i","o","n">>, <<"p","l","a","c","e">> >>

NAME_KEYS ==
  << <<"n","a","m","e">>, <<"p","l","a","y","e","r">>,
     <<"g","a","m","e","r","t","a","g">>, <<"g","a","m","e","r">>, <<"t","a","g">>,
     <<"a","l","i","a","s">>, <<"u","s","e","r","n","a","m","e">>, <<"u","s","e","r">>,
     <<"g","t">>, <<"a","c","c","o","u","n","t">> >>

PREFER_METRIC ==
  << <<"s","c","o","r","e">>, <<"p","o","i","n","t","s">>, <<"r","a","t","i","n","g">>,
     <<"t","i","m","e">>, <<"b","e","s","t"," ","t","i","m","e">>, <<"l","a","p","s">>,
     <<"w","i","n","s">>, <<"v","a","l","u","e">> >>

in_list_ci(str, keys) == SeqContains(keys, lc(str))

\* a preference that compares the key as it is written
metric_prefCaseSensitive(key) ==
  LET hits == { i \in 1..Len(PREFER_METRIC) : PREFER_METRIC[i] = key }
  IN  IF hits = {} THEN 100 ELSE (CHOOSE i \in hits : TRUE) - 1

metric_pref(key) ==
  LET hits == { i \in 1..Len(PREFER_METRIC) : PREFER_METRIC[i] = lc(key) }
  IN  IF hits = {} THEN 100 ELSE (CHOOSE i \in hits : TRUE) - 1

RANK_SENTINEL == 1000000000

\* the digits of rs from its first digit to the next non-digit, as a number
RECURSIVE RankDigits(_, _, _)
RankDigits(rs, n, any) ==
  IF rs = << >> THEN [n |-> n, any |-> any]
  ELSE IF IsDigit(Head(rs)) THEN RankDigits(Tail(rs), n * 10 + DigitVal(Head(rs)), TRUE)
  ELSE IF any THEN [n |-> n, any |-> any]
  ELSE RankDigits(Tail(rs), n, any)

\* a key that reads the first digit only
rankKeyFirstDigit(rs) ==
  LET d == { i \in 1..Len(rs) : IsDigit(rs[i]) }
  IN  IF d = {} THEN RANK_SENTINEL ELSE DigitVal(rs[CHOOSE i \in d : \A j \in d : i <= j])

rankKey(rs) ==
  LET r == RankDigits(rs, 0, FALSE) IN IF r.any THEN r.n ELSE RANK_SENTINEL

\* r[key] of a keyed row: the value of its first member named key, else ""
Member(pairs, key) ==
  LET hits == { i \in 1..Len(pairs) : pairs[i][1] = key }
  IN  IF hits = {} THEN EmptyStr
      ELSE pairs[CHOOSE i \in hits : \A j \in hits : i <= j][2]

\* the value of the first member whose key is in keys (case-insensitive), else cur
FirstAlias(pairs, keys, cur) ==
  LET hits == { i \in 1..Len(pairs) : in_list_ci(pairs[i][1], keys) }
  IN  IF hits = {} THEN cur
      ELSE pairs[CHOOSE i \in hits : \A j \in hits : i <= j][2]

\* the first index (0-based) of a column in keys, else -1
ColIndex(cols, keys) ==
  LET hits == { i \in 1..Len(cols) : in_list_ci(cols[i], keys) }
  IN  IF hits = {} THEN -1 ELSE (CHOOSE i \in hits : \A j \in hits : i <= j) - 1

KeyEq(k, v) == k \o << "=" >> \o v

\* the subsequence of xs at the positions satisfying Keep
RECURSIVE SelectIdx(_, _, _)
SelectIdx(xs, i, keep) ==
  IF i > Len(xs) THEN << >>
  ELSE (IF i \in keep THEN << xs[i] >> ELSE << >>) \o SelectIdx(xs, i + 1, keep)

\* lines 851-855 and 873-877: the declared columns other than rank and name
ColExtras(cols, rankIdx, nameIdx, ValAt(_)) ==
  LET keep == { i \in 1..Len(cols) :
                  i - 1 # rankIdx /\ i - 1 # nameIdx /\ Len(ValAt(i - 1)) > 0 }
  IN  SelectIdx([i \in 1..Len(cols) |-> KeyEq(cols[i], ValAt(i - 1))], 1, keep)

\* lines 856-861: the members of a keyed row that are not declared columns
UndeclaredExtras(pairs, cols) ==
  LET keep == { i \in 1..Len(pairs) :
                  Len(pairs[i][1]) > 0 /\ ~SeqContains(cols, pairs[i][1])
                  /\ Len(pairs[i][2]) > 0 }
  IN  SelectIdx([i \in 1..Len(pairs) |-> KeyEq(pairs[i][1], pairs[i][2])], 1, keep)

ExtraKey(kv) ==
  LET eq == IndexOf(kv, << "=" >>) IN IF eq > 0 THEN Substr(kv, 0, eq) ELSE EmptyStr

ExtraVal(kv) == Substr(kv, IndexOf(kv, << "=" >>) + 1, Len(kv))

\* lines 885-895
CleanExtras(extras) ==
  SelectIdx(extras, 1,
            { i \in 1..Len(extras) :
                Len(ExtraKey(extras[i])) > 0
                /\ ~in_list_ci(ExtraKey(extras[i]), RANK_KEYS)
                /\ ~in_list_ci(ExtraKey(extras[i]), NAME_KEYS) })

\* lines 897-915: the metric and the extras left
ChooseMetric(row, extras) ==
  LET cand == { i \in 1..Len(extras) : IndexOf(extras[i], << "=" >>) > 0 }
      best == CHOOSE i \in cand :
                \A j \in cand : metric_pref(ExtraKey(extras[i])) < metric_pref(ExtraKey(extras[j]))
                                \/ (metric_pref(ExtraKey(extras[i])) = metric_pref(ExtraKey(extras[j]))
                                    /\ i <= j)
  IN  IF cand # {}
      THEN [row EXCEPT !.metric = ExtraVal(extras[best]),
                       !.extras = SelectIdx(extras, 1, (1..Len(extras)) \ {best})]
      ELSE [row EXCEPT !.extras = extras]

\* one row of a board that already holds n rows (lines 830-916)
ParseRow(rv, cols, rankIdx, nameIdx, n) ==
  LET ValByCol(i) == IF i < 0 \/ i >= Len(cols) THEN EmptyStr ELSE Member(rv.pairs, cols[i + 1])
      ValAtArr(i) == IF i < 0 \/ i >= Len(rv.vals) THEN EmptyStr ELSE rv.vals[i + 1]
      pos == IntToStr(n + 1)
      oRank0 == IF rankIdx >= 0 THEN ValByCol(rankIdx) ELSE EmptyStr
      oName0 == IF nameIdx >= 0 THEN ValByCol(nameIdx) ELSE EmptyStr
      oRank1 == IF Len(oRank0) = 0 THEN FirstAlias(rv.pairs, RANK_KEYS, oRank0) ELSE oRank0
      oName1 == IF Len(oName0) = 0 THEN FirstAlias(rv.pairs, NAME_KEYS, oName0) ELSE oName0
      base ==
        CASE rv.kind = "object" ->
               [rank |-> IF Len(oRank1) = 0 THEN pos ELSE oRank1, name |-> oName1,
                extras |-> ColExtras(cols, rankIdx, nameIdx, ValByCol)
                           \o UndeclaredExtras(rv.pairs, cols)]
          [] rv.kind = "array" ->
               [rank |-> IF rankIdx >= 0 THEN ValAtArr(rankIdx) ELSE pos,
                name |-> IF nameIdx >= 0 THEN ValAtArr(nameIdx) ELSE EmptyStr,
                extras |-> ColExtras(cols, rankIdx, nameIdx, ValAtArr)]
          [] OTHER ->
               [rank |-> pos, name |-> rv.val, extras |-> << >>]
  IN  ChooseMetric([rank |-> base.rank, name |-> base.name, metric |-> EmptyStr,
                    extras |-> << >>],
                   CleanExtras(base.extras))

\* lines 829-921: the rows pushed, up to the cap
RECURSIVE ParseRows(_, _, _, _, _)
ParseRows(rowsA, cols, rankIdx, nameIdx, acc) ==
  IF rowsA = << >> \/ Len(acc) >= ROW_CAP
     \/ (MAX_ROWS_PER_BOARD > 0 /\ Len(acc) >= MAX_ROWS_PER_BOARD) THEN acc
  ELSE ParseRows(Tail(rowsA), cols, rankIdx, nameIdx,
                 Append(acc, ParseRow(Head(rowsA), cols, rankIdx, nameIdx, Len(acc))))

\* std::sort by rankKey: rows of equal key may end in any order
RECURSIVE SortOutcomes(_, _)
SortOutcomes(rows, left) ==
  IF left = {} THEN { << >> }
  ELSE LET least == { i \in left : \A j \in left : rankKey(rows[i].rank) <= rankKey(rows[j].rank) }
       IN  UNION { { << rows[i] >> \o rest : rest \in SortOutcomes(rows, left \ {i}) }
                   : i \in least }

\* the rows of one scoreboard before the sort; none when it is skipped
\* (lines 798-921)
ParseBoardRows(sb) ==
  LET cols == IF sb.columns = << >> /\ sb.rows # << >> /\ sb.rows[1].kind = "object"
              THEN [i \in 1..Len(sb.rows[1].pairs) |-> sb.rows[1].pairs[i][1]]
              ELSE sb.columns
  IN  IF ~sb.is_object \/ ~sb.has_rows THEN << >>
      ELSE ParseRows(sb.rows, cols, ColIndex(cols, RANK_KEYS), ColIndex(cols, NAME_KEYS), << >>)

BoardName(sb) == IF Len(sb.name) = 0 THEN <<"d","e","f","a","u","l","t">> ELSE sb.name

\* a parse that would keep the boards without rows
RECURSIVE BoardOutcomesKeepingEmpty(_)
BoardOutcomesKeepingEmpty(sbs) ==
  IF sbs = << >> THEN { << >> }
  ELSE LET rows == ParseBoardRows(Head(sbs))
       IN  { << [name |-> BoardName(Head(sbs)), rows |-> r] >> \o rest :
               r \in SortOutcomes(rows, 1..Len(rows)),
               rest \in BoardOutcomesKeepingEmpty(Tail(sbs)) }

\* the board lists a document's scoreboards can give (lines 798-928)
RECURSIVE BoardOutcomes(_)
BoardOutcomes(sbs) ==
  IF sbs = << >> THEN { << >> }
  ELSE LET rows == ParseBoardRows(Head(sbs))
       IN  IF rows = << >> THEN BoardOutcomes(Tail(sbs))
           ELSE { << [name |-> BoardName(Head(sbs)), rows |-> r] >> \o rest :
                    r \in SortOutcomes(rows, 1..Len(rows)),
                    rest \in BoardOutcomes(Tail(sbs)) }

\* ------------------------------------------------------------------------
\* Resolve and load (insignia.cpp 577-595, 705-766, 770-796, 930-948)
\* ------------------------------------------------------------------------
\* a fetch that would take whatever the cache holds before asking the network,
\* as the probe of lines 465-475 does
FetchThroughCacheStaleFirst(s, o, url, ttl) ==
  LET cr == cacheRead(s, o, url, ttl, TRUE)
      s0 == Stepped(cr.s, "stale", url, ttl, cr.ok, cr.out)
      s1 == Stepped(Fetched(s0, o, url), "get", url, W32(0), HttpOk(o), o.resp)
  IN  IF cr.ok THEN { [s |-> s0, ok |-> TRUE, body |-> cr.out] }
      ELSE IF HttpOk(o)
           THEN { [s |-> x, ok |-> TRUE, body |-> o.resp] : x \in cacheWrite(s1, o, url, o.resp) }
      ELSE { [s |-> s1, ok |-> FALSE, body |-> NoBody] }

\* the fetch through the cache of lines 588-592 and 774-777: the outcomes
\* [s, ok, body]
FetchThroughCache(s, o, url, ttl) ==
  LET cr  == cacheRead(s, o, url, ttl, FALSE)
      s0  == Stepped(cr.s, "strict", url, ttl, cr.ok, cr.out)
      s1  == Stepped(Fetched(s0, o, url), "get", url, W32(0), HttpOk(o), o.resp)
      cr2 == cacheRead(s1, o, url, W32(0), TRUE)
      s2  == Stepped(cr2.s, "stale", url, W32(0), cr2.ok, cr2.out)
  IN  IF cr.ok THEN { [s |-> s0, ok |-> TRUE, body |-> cr.out] }
      ELSE IF HttpOk(o)
           THEN { [s |-> x, ok |-> TRUE, body |-> o.resp] : x \in cacheWrite(s1, o, url, o.resp) }
      ELSE { [s |-> s2, ok |-> cr2.ok, body |-> cr2.out] }

\* lines 705-766: the result r of the scan is adopted, or nothing changes
Adopt(s, o, r) ==
  IF ~r.ok THEN s
  ELSE Won([s EXCEPT !.titlePool = r.pool,
                     !.curTitleIdx = o.rnd % Len(r.pool),
                     !.haveSearch = TRUE,
                     !.resolved = TRUE,
                     !.lastDiag = r.diags], "resolve")

\* lines 597-766, once the body is there
AdoptScan(s, o, entries, r) == Adopt(Scanned(s, entries, r), o, r)

ResolveFrom(s, o, body) == AdoptScan(s, o, body.entries, ResolveScan(s.curApp, body.entries))

\* a resolve that would go to the index whatever the query normalizes to
ResolveQueryUnguarded(s, o, s1) ==
  IF ~o.nr /\ Len(s.WORK_ROOT) = 0 THEN { s }
  ELSE IF Len(s.WORK_ROOT) = 0 THEN { s }
  ELSE IF Len(s.curApp) = 0 THEN { s }
  ELSE { IF f.ok THEN ResolveFrom(f.s, o, f.body) ELSE f.s
         : f \in FetchThroughCache(s1, o, SearchUrl(s1.WORK_ROOT), TTL_SEARCH_MS) }

\* lines 582-766, with the attempt recorded and the query recorded in s1
ResolveQuery(s, o, s1) ==
  IF ~o.nr /\ Len(s.WORK_ROOT) = 0 THEN { s }
  ELSE IF Len(s.WORK_ROOT) = 0 THEN { s }
  ELSE IF Len(s.curApp) = 0 THEN { s }
  ELSE IF Len(s1.lastQueryNorm) = 0 THEN { s1 }
  ELSE { IF f.ok THEN ResolveFrom(f.s, o, f.body) ELSE f.s
         : f \in FetchThroughCache(s1, o, SearchUrl(s1.WORK_ROOT), TTL_SEARCH_MS) }

resolveTitlePool(s0, o) ==
  ResolveQuery(Attempt(s0, "resolve"), o,
               [Attempt(s0, "resolve") EXCEPT !.lastQueryRaw = s0.curApp,
                                              !.lastQueryNorm = normKey(s0.curApp)])

\* lines 782-948, once the body is there: the states the load can leave
LoadFrom(s, o, body) ==
  LET s1 == [s EXCEPT !.boards = << >>, !.curBoard = -1,
                      !.gameTitle = body.doc.game_title]
      Install(bs) ==
        Won([s1 EXCEPT !.boards = bs,
                       !.curBoard = o.rnd % Len(bs),
                       !.lastBoardSwitch = millis(s1),
                       !.scrollY = 0,
                       !.freezeUntilMs = Add32(millis(s1), W32(FREEZE_MS)),
                       !.loaded = TRUE,
                       !.lastModelSwitch = millis(s1)], "load")
  IN  IF ~Parses(body) THEN { s }
      ELSE IF ~body.doc.has_scoreboards THEN { s1 }
      ELSE { IF bs = << >> THEN s1 ELSE Install(bs)
             : bs \in BoardOutcomes(body.doc.scoreboards) }

\* a load that would move on to the next variant when the document fails
loadGameModelMovingOn(s0, o, titleId) ==
  LET s == Attempt(s0, "load")
  IN  UNION { IF f.ok THEN LoadFrom(f.s, o, f.body)
              ELSE { [f.s EXCEPT !.curTitleIdx = (@ + 1) % Len(f.s.titlePool)] }
              : f \in FetchThroughCache(s, o, ByIdUrl(s.WORK_ROOT, titleId), TTL_BYID_MS) }

loadGameModel(s0, o, titleId) ==
  LET s == Attempt(s0, "load")
  IN  UNION { IF f.ok THEN LoadFrom(f.s, o, f.body) ELSE { f.s }
              : f \in FetchThroughCache(s, o, ByIdUrl(s.WORK_ROOT, titleId), TTL_BYID_MS) }

\* ------------------------------------------------------------------------
\* The scheduler (insignia.cpp 1032-1086)
\* ------------------------------------------------------------------------
\* a gate that would never hold an attempt back
NeverGated(now, lastFetchMs) == FALSE

\* now - lastFetchMs < 100
FetchGated(now, lastFetchMs) == Lt32(Sub32(now, lastFetchMs), W32(FETCH_GAP_MS))

\* a scheduler that would pick the step without looking at the root first
maybeResolveAndLoadUnordered(s, o) ==
  LET now == millis(s)
      s1  == [s EXCEPT !.lastFetchMs = now]
  IN  IF Lt32(Sub32(now, s.lastFetchMs), W32(FETCH_GAP_MS)) THEN { s }
      ELSE IF ~s1.resolved THEN resolveTitlePool(s1, o)
      ELSE IF Len(s1.WORK_ROOT) = 0 THEN stepProbeWorkRoot(s1, o)
      ELSE IF ~s1.loaded
           THEN (IF s1.curTitleIdx < 0 \/ s1.curTitleIdx >= Len(s1.titlePool) THEN { s1 }
                 ELSE loadGameModel(s1, o, s1.titlePool[s1.curTitleIdx + 1]))
      ELSE { s1 }

maybeResolveAndLoad(s, o) ==
  LET now == millis(s)
      s1  == [s EXCEPT !.lastFetchMs = now]
  IN  IF FetchGated(now, s.lastFetchMs) THEN { s }
      ELSE IF Len(s1.WORK_ROOT) = 0 THEN stepProbeWorkRoot(s1, o)
      ELSE IF ~s1.resolved THEN resolveTitlePool(s1, o)
      ELSE IF ~s1.loaded
           THEN (IF s1.curTitleIdx < 0 \/ s1.curTitleIdx >= Len(s1.titlePool) THEN { s1 }
                 ELSE loadGameModel(s1, o, s1.titlePool[s1.curTitleIdx + 1]))
      ELSE { s1 }

CONTENT_BODY_TOP == CONTENT_TOP + LINE_H

\* a cutoff that every row would always have passed
LastRowAlwaysGone(B, scrollY) == TRUE

\* last_top < CONTENT_BODY_TOP for the board B at scroll offset scrollY
LastRowGone(B, scrollY) ==
  LET last_i == Len(B.rows) - 1
      y_last == (SCR_H - 2) - (scrollY - last_i * LINE_H)
  IN  y_last - ASCENT_5x8 < CONTENT_BODY_TOP

\* a board switch whose variant advance does not wrap
SwitchBoardNoWrap(s, o, now) ==
  LET n    == Len(s.boards)
      r    == IF n > 1 THEN o.rnd % n ELSE s.curBoard
      next == IF n > 1 /\ r = s.curBoard THEN (r + 1) % n ELSE r
      s1   == [s EXCEPT !.curBoard = next, !.scrollY = 0, !.lastBoardSwitch = now,
                        !.freezeUntilMs = Add32(now, W32(FREEZE_MS))]
  IN  IF Len(s.titlePool) > 1
         /\ ~Lt32(Sub32(now, s.lastModelSwitch), W32(MODEL_DWELL_MS))
      THEN [s1 EXCEPT !.curTitleIdx = @ + 1, !.loaded = FALSE]
      ELSE s1

\* a board switch that would advance the variant without waiting
SwitchBoardRestless(s, o, now) ==
  LET n    == Len(s.boards)
      r    == IF n > 1 THEN o.rnd % n ELSE s.curBoard
      next == IF n > 1 /\ r = s.curBoard THEN (r + 1) % n ELSE r
      s1   == [s EXCEPT !.curBoard = next, !.scrollY = 0, !.lastBoardSwitch = now,
                        !.freezeUntilMs = Add32(now, W32(FREEZE_MS))]
  IN  IF Len(s.titlePool) > 1
      THEN [s1 EXCEPT !.curTitleIdx = (@ + 1) % Len(s.titlePool), !.loaded = FALSE]
      ELSE s1

\* lines 1067-1084: the board switch, and the variant advance with it
SwitchBoard(s, o, now) ==
  LET n    == Len(s.boards)
      r    == IF n > 1 THEN o.rnd % n ELSE s.curBoard
      next == IF n > 1 /\ r = s.curBoard THEN (r + 1) % n ELSE r
      s1   == [s EXCEPT !.curBoard = next, !.scrollY = 0, !.lastBoardSwitch = now,
                        !.freezeUntilMs = Add32(now, W32(FREEZE_MS))]
  IN  IF Len(s.titlePool) > 1
         /\ ~Lt32(Sub32(now, s.lastModelSwitch), W32(MODEL_DWELL_MS))
      THEN [s1 EXCEPT !.curTitleIdx = (@ + 1) % Len(s.titlePool), !.loaded = FALSE]
      ELSE s1

\* lines 1050-1085: tick after maybeResolveAndLoad
Rotate(s, o) ==
  LET now == millis(s)
      s1  == IF ~Lt32(Sub32(now, s.lastStep), W32(STEP_MS))
             THEN [s EXCEPT !.lastStep = now, !.scrollY = @ + PIXELS_PER_STEP]
             ELSE s
  IN  IF ~s.resolved \/ ~s.loaded THEN s
      ELSE IF Lt32(now, s.freezeUntilMs) THEN s
      ELSE IF s1.curBoard >= 0 /\ s1.curBoard < Len(s1.boards)
              /\ LastRowGone(s1.boards[s1.curBoard + 1], s1.scrollY)
              /\ ~Lt32(Sub32(now, s1.lastBoardSwitch), W32(BOARD_MIN_DWELL_MS))
           THEN SwitchBoard(s1, o, now)
      ELSE s1

tick(s, o) ==
  IF Len(s.curApp) = 0 THEN { s }
  ELSE { Rotate(x, o) : x \in maybeResolveAndLoad(s, o) }

\* ------------------------------------------------------------------------
\* Public API (insignia.cpp 951-1018)
\* ------------------------------------------------------------------------
setServerBase(s, base) == [s EXCEPT !.BASE = base]

setFlushCacheOnBoot(s, enable) == [s EXCEPT !.flushOnBoot = enable]

flushCacheNow(s, o) ==
  LET s1 == ensureFS(s, o)
  IN  IF ~s1.fsReady THEN s1 ELSE [s1 EXCEPT !.files = NoFiles]

\* a zero argument keeps the limit (cacheMaxAgeMs is given in ms, as a word)
\* a setter that stores its arguments as they are
setCacheLimitsVerbatim(s, maxFiles, maxBytes, maxAgeMs) ==
  [s EXCEPT !.cacheMaxFiles = maxFiles, !.cacheMaxBytes = maxBytes,
            !.cacheMaxAgeMs = maxAgeMs]

setCacheLimits(s, maxFiles, maxBytes, maxAgeMs) ==
  [s EXCEPT !.cacheMaxFiles = IF maxFiles # 0 THEN maxFiles ELSE @,
            !.cacheMaxBytes = IF maxBytes # 0 THEN maxBytes ELSE @,
            !.cacheMaxAgeMs = IF maxAgeMs # W32(0) THEN maxAgeMs ELSE @]

\* a reset that would leave the resolved and loaded flags alone
resetRuntimeKeepingFlags(s) ==
  [s EXCEPT !.boards = << >>, !.curBoard = -1, !.gameTitle = EmptyStr,
            !.haveSearch = FALSE,
            !.titlePool = << >>, !.curTitleIdx = -1, !.scrollY = 0,
            !.lastStep = W32(0), !.lastBoardSwitch = W32(0),
            !.freezeUntilMs = W32(0), !.lastModelSwitch = W32(0),
            !.probeList = << >>, !.probeIdx = 0, !.nextProbeAt = W32(0),
            !.lastDiag = << >>, !.lastQueryRaw = EmptyStr, !.lastQueryNorm = EmptyStr]

\* a reset that would forget the confirmed root as well
resetRuntimeDroppingRoot(s) ==
  [s EXCEPT !.boards = << >>, !.curBoard = -1, !.gameTitle = EmptyStr,
            !.haveSearch = FALSE, !.resolved = FALSE, !.loaded = FALSE,
            !.titlePool = << >>, !.curTitleIdx = -1, !.scrollY = 0,
            !.lastStep = W32(0), !.lastBoardSwitch = W32(0),
            !.freezeUntilMs = W32(0), !.lastModelSwitch = W32(0),
            !.probeList = << >>, !.probeIdx = 0, !.nextProbeAt = W32(0),
            !.lastDiag = << >>, !.lastQueryRaw = EmptyStr, !.lastQueryNorm = EmptyStr,
            !.WORK_ROOT = EmptyStr]

resetRuntime(s) ==
  [s EXCEPT !.boards = << >>, !.curBoard = -1, !.gameTitle = EmptyStr,
            !.haveSearch = FALSE, !.resolved = FALSE, !.loaded = FALSE,
            !.titlePool = << >>, !.curTitleIdx = -1, !.scrollY = 0,
            !.lastStep = W32(0), !.lastBoardSwitch = W32(0),
            !.freezeUntilMs = W32(0), !.lastModelSwitch = W32(0),
            !.probeList = << >>, !.probeIdx = 0, !.nextProbeAt = W32(0),
            !.lastDiag = << >>, !.lastQueryRaw = EmptyStr, !.lastQueryNorm = EmptyStr]

begin(s, o) ==
  LET s1 == resetRuntime(s)
  IN  IF o.nr THEN startProbingIfNeeded(s1) ELSE s1

\* a query change that would take the new name and reset nothing
onAppNameNoReset(s, o, app) ==
  LET name == Trim(app)
  IN  IF name = s.curApp THEN s ELSE [s EXCEPT !.curApp = name]

\* a delivery that would reset whether or not the name changed
onAppNameAlwaysResets(s, o, app) ==
  LET name == Trim(app)
      s1   == resetRuntime([s EXCEPT !.curApp = name])
  IN  IF Len(name) = 0 THEN s1
      ELSE IF o.nr THEN startProbingIfNeeded(s1) ELSE s1

\* a query change that would empty the persistent cache too
onAppNameFlushing(s, o, app) ==
  LET name == Trim(app)
      s1   == resetRuntime([s EXCEPT !.curApp = name, !.files = NoFiles])
  IN  IF name = s.curApp THEN s
      ELSE IF Len(name) = 0 THEN s1
      ELSE IF o.nr THEN startProbingIfNeeded(s1) ELSE s1

onAppName(s, o, app) ==
  LET name == Trim(app)
      s1   == resetRuntime([s EXCEPT !.curApp = name])
  IN  IF name = s.curApp THEN s
      ELSE IF Len(name) = 0 THEN s1
      ELSE IF o.nr THEN startProbingIfNeeded(s1) ELSE s1

isActive(s) == Len(s.curApp) > 0 /\ s.resolved /\ s.loaded

\* ------------------------------------------------------------------------
\* The environment: the names the host passes, the bases it configures, and
\* what the server answers.  BASE starts as the default of line 56, written
\* with "h" for "http://darkone83.myddns.me:8080".
\* ------------------------------------------------------------------------
DefaultBase == << "h", "/", "xbox" >>

OtherBase == << "g" >>

Bases == { DefaultBase, OtherBase }

QHalo == <<"H","a","l","o">>

QPong == <<"P","o","n","g">>

Names == { EmptyStr, QHalo, << " " >> \o QHalo \o << " " >>, QPong }

IdA == << "A", "A" >>

IdB == << "B", "B" >>

IdC == << "C", "C" >>

Entry(id, name, slug) ==
  [has_id |-> TRUE, title_id |-> id, name |-> name, name_lc |-> EmptyStr, slug |-> slug]

\* an index with a two-variant family and a single title
IndexA ==
  [parses |-> TRUE,
   entries |-> << Entry(IdA, <<"H","a","l","o"," ","(","N","T","S","C",")">>, <<"h","a","l","o">>),
                  Entry(IdB, <<"H","a","l","o"," ","(","P","A","L",")">>, <<"h","a","l","o">>),
                  Entry(IdC, <<"P","o","n","g">>, <<"p","o","n","g">>) >>,
   doc |-> NoDoc, size |-> 3]

\* a body that is not JSON
Garbage == [parses |-> FALSE, entries |-> << >>, doc |-> NoDoc, size |-> 1]

KeyedRow(rank, name, score) ==
  [kind |-> "object",
   pairs |-> << << <<"r","a","n","k">>, rank >>, << <<"n","a","m","e">>, name >>, << <<"s","c","o","r","e">>, score >> >>,
   vals |-> << >>, val |-> EmptyStr]

BoardAlpha ==
  [is_object |-> TRUE, name |-> << "a" >>, columns |-> << >>, has_rows |-> TRUE,
   rows |-> << KeyedRow(<< "2" >>, << "x" >>, << "7" >>),
               KeyedRow(<< "1" >>, << "y" >>, << "9" >>) >>]

BoardBeta ==
  [is_object |-> TRUE, name |-> << "b" >>, columns |-> << >>, has_rows |-> TRUE,
   rows |-> << KeyedRow(<< "1" >>, << "z" >>, << "5" >>) >>]

DocBody(title, has, sbs, size) ==
  [parses |-> TRUE, entries |-> << >>,
   doc |-> [game_title |-> title, has_scoreboards |-> has, scoreboards |-> sbs],
   size |-> size]

\* a document with two usable boards
DocGood == DocBody(<< "T" >>, TRUE, << BoardAlpha, BoardBeta >>, 5)

\* a document without a scoreboards array
DocBare == DocBody(<< "U" >>, FALSE, << >>, 2)

\* a scoreboard whose rows array is empty, and an entry of the scoreboards
\* array that is not an object
BoardHollow == [BoardAlpha EXCEPT !.rows = << >>]

BoardScalar == [BoardAlpha EXCEPT !.is_object = FALSE]

\* documents whose scoreboards give no row at all, and one usable board
DocHollow == DocBody(<< "V" >>, TRUE, << BoardHollow, BoardScalar >>, 2)

DocMixed == DocBody(<< "W" >>, TRUE, << BoardHollow, BoardBeta, BoardScalar >>, 3)

Fail == [http |-> FALSE, resp |-> NoBody]

Ok(body) == [http |-> TRUE, resp |-> body]

IsSearch(url) == EndsWith(url, << "search.json" >>)

\* queries and indexes for the matcher
QHalo2 == <<"H","a","l","o"," ","2">>

QAbab == <<"a","b","a","b","a","b","a">>

MatchNames == { QHalo, QHalo2, QAbab }

IdD == << "D", "D" >>

IndexOf2(e1, e2) ==
  [parses |-> TRUE, entries |-> << e1, e2 >>, doc |-> NoDoc, size |-> 2]

\* two variants listed by title_id and name alone
IndexHalo2 == IndexOf2(Entry(IdA, <<"H","a","l","o"," ","2"," ","(","N","T","S","C",")">>, EmptyStr), Entry(IdB, <<"H","a","l","o"," ","2"," ","(","P","A","L",")">>, EmptyStr))

\* a title whose letters are those of QAbab in another order, listed without
\* a slug, and a title that has nothing in common with any query
IndexUnrelated == IndexOf2(Entry(IdA, <<"b","a","b","a","b","a","b">>, EmptyStr), Entry(IdB, <<"Z","o","r","k">>, <<"z","o","r","k">>))

\* a family of three entries, one of them under an id listed twice, found by
\* name and by slug, next to other titles and an object without title_id
IndexFam ==
  [parses |-> TRUE,
   entries |-> << Entry(IdA, <<"H","a","l","o"," ","(","N","T","S","C",")">>, <<"h","a","l","o">>),
                  [Entry(IdD, <<"H","a","l","o"," ","(","P","A","L",")">>, <<"h","a","l","o">>) EXCEPT !.has_id = FALSE],
                  Entry(IdC, <<"P","o","n","g">>, <<"p","o","n","g">>),
                  Entry(IdB, EmptyStr, <<"h","a","l","o","-","p","a","l">>),
                  Entry(IdA, <<"H","a","l","o"," ","(","U","S","A",")">>, <<"h","a","l","o","-","u","s","a">>),
                  Entry(IdD, <<"H","a","l","o"," ","2"," ","(","N","T","S","C",")">>, <<"h","a","l","o","-","2">>) >>,
   doc |-> NoDoc, size |-> 6]

MatchIndexes == { IndexA, IndexHalo2, IndexUnrelated, IndexFam }

\* the third candidate of the default base
ThirdRoot == buildCandidateRoots(DefaultBase)[3]

\* In the environment "lame" the document of the second variant of the
\* family may fail to load any number of times.
\* what the server can answer to a GET of url.  In the environment "third"
\* only the third candidate root serves a parseable index; in the environment
\* "match" every root serves one of the indexes of the matcher and every
\* document loads.
Responses(env, url) ==
  IF url = EmptyStr \/ env = "down" THEN { Fail }
  ELSE IF IsSearch(url)
       THEN (IF env = "mixed" THEN { Fail, Ok(Garbage), Ok(IndexA) }
             ELSE IF env = "third"
             THEN (IF url = SearchUrl(ThirdRoot) THEN { Ok(IndexA) } ELSE { Fail, Ok(Garbage) })
             ELSE IF env = "match" THEN { Ok(i) : i \in MatchIndexes }
             ELSE IF env \in { "steady", "lame" } THEN { Ok(IndexA) }
             ELSE { Fail, Ok(IndexA) })
  ELSE IF env \in { "match", "steady" } THEN { Ok(DocGood) }
  ELSE IF env = "sparse" THEN { Fail, Ok(DocHollow), Ok(DocMixed), Ok(DocGood) }
  ELSE IF env = "lame"
       THEN (IF \E i \in DOMAIN buildCandidateRoots(DefaultBase) :
                    url = ByIdUrl(buildCandidateRoots(DefaultBase)[i], IdB)
             THEN { Fail, Ok(DocGood) } ELSE { Ok(DocGood) })
  ELSE { Fail, Ok(Garbage), Ok(DocGood), Ok(DocBare) }

\* the URL a tick in state s asks for if it asks for one, else ""
\* (the branches of maybeResolveAndLoad, stepProbeWorkRoot, resolveTitlePool)
NextUrl(s) ==
  LET list == IF s.probeList = << >> THEN buildCandidateRoots(s.BASE) ELSE s.probeList
  IN  IF Len(s.curApp) = 0 \/ FetchGated(millis(s), s.lastFetchMs) THEN EmptyStr
      ELSE IF Len(s.WORK_ROOT) = 0
           THEN (IF s.probeIdx < Len(list) THEN SearchUrl(list[s.probeIdx + 1]) ELSE EmptyStr)
      ELSE IF ~s.resolved THEN SearchUrl(s.WORK_ROOT)
      ELSE IF ~s.loaded /\ s.curTitleIdx >= 0 /\ s.curTitleIdx < Len(s.titlePool)
           THEN ByIdUrl(s.WORK_ROOT, s.titlePool[s.curTitleIdx + 1])
      ELSE EmptyStr

\* bounds
MaxSteps == 4

MaxRnd == 1

MaxCalls == 2

MaxElapsed == MaxSteps * FETCH_GAP_MS

MaxProbeSteps == 8

MaxProbeElapsed == MaxProbeSteps * FETCH_GAP_MS

MaxRotateSteps == 45

\* the host ticks every RotateGap ms while the boards scroll
RotateGap == 5 * FETCH_GAP_MS

MaxRotateElapsed == MaxRotateSteps * RotateGap

Rnds == 0..MaxRnd

\* how long a fetch can take
Durs == { 0, FETCH_GAP_MS }

\* what SPIFFS can answer: << SPIFFS.begin succeeds, SPIFFS.open for writing >>
FsAnswers(s, http) ==
  (IF s.fsReady THEN { } ELSE { << FALSE, "ok" >> })
  \cup { << TRUE, "ok" >> }
  \cup (IF http THEN { << TRUE, "fail" >> } ELSE { })

\* the environments in which the network is up, SPIFFS works and a fetch
\* takes no time
Calm(env) == env \in { "match", "steady", "down", "mixed", "flaky", "sparse", "lame" }

\* what netReady() can answer in state s (it is only read while no root is set)
NetAnswers(env, s) == IF Len(s.WORK_ROOT) = 0 /\ ~Calm(env) THEN BOOLEAN ELSE { TRUE }

FsAnswersIn(env, s, http) == IF Calm(env) THEN { << TRUE, "ok" >> } ELSE FsAnswers(s, http)

DursIn(env) == IF Calm(env) THEN { 0 } ELSE Durs

\* what the environment can answer during a tick in state s; an answer the
\* tick cannot ask for is fixed
Oracles(env, s) ==
  LET url == NextUrl(s)
  IN  IF url = EmptyStr
      THEN { [nr |-> nr, http |-> FALSE, resp |-> NoBody, rnd |-> rnd, mount |-> TRUE,
              wr |-> "ok", dur |-> 0] :
               nr \in NetAnswers(env, s),
               rnd \in (IF s.resolved /\ s.loaded THEN Rnds ELSE { 0 }) }
      ELSE UNION {
             { [nr |-> nr, http |-> r.http, resp |-> r.resp, rnd |-> rnd, mount |-> fs[1],
                wr |-> fs[2], dur |-> dur] :
                 nr \in NetAnswers(env, s),
                 rnd \in (IF Len(s.WORK_ROOT) > 0 THEN Rnds ELSE { 0 }),
                 fs \in FsAnswersIn(env, s, r.http),
                 dur \in DursIn(env) }
             : r \in Responses(env, url) }

\* netReady() alone, for begin and onAppName
NetOracle(nr) ==
  [nr |-> nr, http |-> FALSE, resp |-> NoBody, rnd |-> 0, mount |-> TRUE, wr |-> "ok",
   dur |-> 0]

\* ------------------------------------------------------------------------
\* State
\* ------------------------------------------------------------------------
VARIABLES
  BASE, WORK_ROOT, curApp, gameTitle, haveSearch, resolved, loaded,
  titlePool, curTitleIdx, lastModelSwitch, boards, curBoard, scrollY,
  lastStep, lastBoardSwitch, freezeUntilMs, lastFetchMs,
  probeList, probeIdx, nextProbeAt, lastDiag, lastQueryRaw, lastQueryNorm,
  fsReady, flushOnBoot, cacheMaxFiles, cacheMaxBytes, cacheMaxAgeMs,
  files,      \* the files under CACHE_DIR on SPIFFS
  clk,        \* the clock
  tr,         \* what the last call did
  call,       \* the last call made
  won,        \* the attempts that have succeeded since the query last changed
  lastAt,     \* when the last attempt was made (ms since boot), -1 before the first
  ncalls,     \* how many calls the host has made other than tick
  nprobes,    \* how many candidates have been probed since boot
  pre,        \* before the last call: [curApp, active]
  wrote,      \* for each cache path, the number of the call that last wrote it
  io          \* a function applied on its own: [fn, arg, done, out]

engine ==
  << BASE, WORK_ROOT, curApp, gameTitle, haveSearch, resolved, loaded,
     titlePool, curTitleIdx, lastModelSwitch, boards, curBoard, scrollY,
     lastStep, lastBoardSwitch, freezeUntilMs, lastFetchMs,
     probeList, probeIdx, nextProbeAt, lastDiag, lastQueryRaw, lastQueryNorm,
     fsReady, flushOnBoot, cacheMaxFiles, cacheMaxBytes, cacheMaxAgeMs >>

vars == << engine, files, clk, tr, call, won, lastAt, ncalls, nprobes, pre, wrote, io >>

\* the state as the record the operators above work on, with an empty trace
Cur ==
  [BASE |-> BASE, WORK_ROOT |-> WORK_ROOT, curApp |-> curApp, gameTitle |-> gameTitle,
   haveSearch |-> haveSearch, resolved |-> resolved, loaded |-> loaded,
   titlePool |-> titlePool, curTitleIdx |-> curTitleIdx,
   lastModelSwitch |-> lastModelSwitch, boards |-> boards, curBoard |-> curBoard,
   scrollY |-> scrollY, lastStep |-> lastStep, lastBoardSwitch |-> lastBoardSwitch,
   freezeUntilMs |-> freezeUntilMs, lastFetchMs |-> lastFetchMs,
   probeList |-> probeList, probeIdx |-> probeIdx, nextProbeAt |-> nextProbeAt,
   lastDiag |-> lastDiag, lastQueryRaw |-> lastQueryRaw, lastQueryNorm |-> lastQueryNorm,
   fsReady |-> fsReady, flushOnBoot |-> flushOnBoot, cacheMaxFiles |-> cacheMaxFiles,
   cacheMaxBytes |-> cacheMaxBytes, cacheMaxAgeMs |-> cacheMaxAgeMs,
   files |-> files, clk |-> clk, tr |-> NoTrace]

\* the call op leaves the state s and the write numbers w
CommitWith(s, op, w) ==
  /\ BASE' = s.BASE /\ WORK_ROOT' = s.WORK_ROOT /\ curApp' = s.curApp
  /\ gameTitle' = s.gameTitle /\ haveSearch' = s.haveSearch
  /\ resolved' = s.resolved /\ loaded' = s.loaded
  /\ titlePool' = s.titlePool /\ curTitleIdx' = s.curTitleIdx
  /\ lastModelSwitch' = s.lastModelSwitch /\ boards' = s.boards
  /\ curBoard' = s.curBoard /\ scrollY' = s.scrollY /\ lastStep' = s.lastStep
  /\ lastBoardSwitch' = s.lastBoardSwitch /\ freezeUntilMs' = s.freezeUntilMs
  /\ lastFetchMs' = s.lastFetchMs /\ probeList' = s.probeList
  /\ probeIdx' = s.probeIdx /\ nextProbeAt' = s.nextProbeAt
  /\ lastDiag' = s.lastDiag /\ lastQueryRaw' = s.lastQueryRaw
  /\ lastQueryNorm' = s.lastQueryNorm /\ fsReady' = s.fsReady
  /\ flushOnBoot' = s.flushOnBoot /\ cacheMaxFiles' = s.cacheMaxFiles
  /\ cacheMaxBytes' = s.cacheMaxBytes /\ cacheMaxAgeMs' = s.cacheMaxAgeMs
  /\ files' = s.files /\ clk' = s.clk
  /\ tr' = [s.tr EXCEPT !.since = IF s.tr.attempts # << >> /\ lastAt >= 0
                                  THEN clk.el - lastAt ELSE -1]
  /\ call' = op
  /\ won' = IF s.curApp # curApp THEN {}
            ELSE won \cup ({ s.tr.wins[i] : i \in 1..Len(s.tr.wins) } \ { "probe" })
  /\ lastAt' = IF s.tr.attempts # << >> THEN clk.el ELSE lastAt
  /\ ncalls' = IF op = "tick" THEN ncalls ELSE ncalls + 1
  /\ nprobes' = nprobes + Cardinality({ i \in 1..Len(s.tr.attempts) : s.tr.attempts[i] = "probe" })
  /\ pre' = [curApp |-> curApp, active |-> Len(curApp) > 0 /\ resolved /\ loaded]
  /\ wrote' = w
  /\ io' = io

\* the call op leaves the state s
Commit(s, op) == CommitWith(s, op, wrote)

\* no function has been applied on its own
NoIO == [fn |-> "", arg |-> << >>, done |-> FALSE, out |-> << >>]

\* the state after construction, with x the function application to come
InitWith(x) ==
  /\ io = x
  /\ BASE = DefaultBase /\ WORK_ROOT = EmptyStr /\ curApp = EmptyStr
  /\ gameTitle = EmptyStr /\ haveSearch = FALSE /\ resolved = FALSE /\ loaded = FALSE
  /\ titlePool = << >> /\ curTitleIdx = -1 /\ lastModelSwitch = W32(0)
  /\ boards = << >> /\ curBoard = -1 /\ scrollY = 0 /\ lastStep = W32(0)
  /\ lastBoardSwitch = W32(0) /\ freezeUntilMs = W32(0) /\ lastFetchMs = W32(0)
  /\ probeList = << >> /\ probeIdx = 0 /\ nextProbeAt = W32(0)
  /\ lastDiag = << >> /\ lastQueryRaw = EmptyStr /\ lastQueryNorm = EmptyStr
  /\ fsReady = FALSE /\ flushOnBoot = FALSE
  /\ cacheMaxFiles = DefaultMaxFiles /\ cacheMaxBytes = DefaultMaxBytes
  /\ cacheMaxAgeMs = DefaultMaxAgeMs
  /\ files = NoFiles
  /\ clk = [now |-> W32(0), el |-> 0, off |-> 0]
  /\ tr = NoTrace
  /\ call = "boot"
  /\ won = {}
  /\ lastAt = -1
  /\ ncalls = 0
  /\ nprobes = 0
  /\ pre = [curApp |-> EmptyStr, active |-> FALSE]
  /\ wrote = NoFiles

Init == InitWith(NoIO)

\* tick() against the environment env, up to the time limit
TickIn(env, limit) ==
  /\ clk.el <= limit
  /\ \E c \in { Cur } : \E o \in Oracles(env, c) :
       \E s \in tick(c, o) : Commit(s, "tick")

\* d ms pass between two calls
AdvanceBy(d, limit) ==
  /\ clk.el + d <= limit
  /\ clk' = Later(clk, d)
  /\ tr' = NoTrace
  /\ call' = "advance"
  /\ pre' = [curApp |-> curApp, active |-> Len(curApp) > 0 /\ resolved /\ loaded]
  /\ UNCHANGED << engine, files, won, lastAt, ncalls, nprobes, wrote, io >>

OnAppNameIn(names) ==
  /\ ncalls < MaxCalls
  /\ \E c \in { Cur }, app \in names, nr \in BOOLEAN :
       Commit(onAppName(c, NetOracle(nr), app), "onAppName")

AdvanceTo(limit) == AdvanceBy(FETCH_GAP_MS, limit)

Tick == TickIn("any", MaxElapsed)

Advance == AdvanceTo(MaxElapsed)

OnAppName == OnAppNameIn(Names)

Begin ==
  /\ ncalls < MaxCalls
  /\ \E c \in { Cur }, nr \in BOOLEAN :
       Commit(begin(c, NetOracle(nr)), "begin")

SetServerBase ==
  /\ ncalls < MaxCalls
  /\ \E c \in { Cur }, base \in Bases :
       Commit(setServerBase(c, base), "setServerBase")

FlushCacheNow ==
  /\ ncalls < MaxCalls
  /\ \E c \in { Cur }, mount \in BOOLEAN :
       Commit(flushCacheNow(c, [NetOracle(TRUE) EXCEPT !.mount = mount]), "flushCacheNow")

Next ==
  \/ Tick
  \/ Advance
  \/ OnAppName
  \/ Begin
  \/ SetServerBase
  \/ FlushCacheNow

Spec == Init /\ [][Next]_vars

\* ------------------------------------------------------------------------
\* The root discovery scenario: the default base gives three candidates, only
\* the third serves a parseable index, nothing is cached, and the host sets
\* one query and keeps it.
\* ------------------------------------------------------------------------
ProbeTick == TickIn("third", MaxProbeElapsed)

ProbeAdvance == AdvanceTo(MaxProbeElapsed)

ProbeQuery == OnAppNameIn({ QHalo })

NextProbe ==
  \/ ProbeTick
  \/ ProbeAdvance
  \/ ProbeQuery

SpecProbe == Init /\ [][NextProbe]_vars

\* ------------------------------------------------------------------------
\* The matcher scenario: the host sets queries and the server answers each
\* request for the index with one of the indexes of the matcher.
\* ------------------------------------------------------------------------
MatchTick == TickIn("match", MaxElapsed)

MatchAdvance == AdvanceTo(MaxElapsed)

MatchQuery == OnAppNameIn(MatchNames)

NextMatch ==
  \/ MatchTick
  \/ MatchAdvance
  \/ MatchQuery

SpecMatch == Init /\ [][NextMatch]_vars

\* ------------------------------------------------------------------------
\* The display scenario: the server answers every fetch, the boards scroll
\* and the engine moves from board to board and from variant to variant.
\* ------------------------------------------------------------------------
\* The host calls tick() once per pass of its loop (a second tick at the
\* same millis() is held back by the fetch gate and by the scroll step) and
\* announces the first title as it starts.
RotateNames == { QHalo, QPong }

RotateTick == call # "tick" /\ TickIn("steady", MaxRotateElapsed)

RotateAdvance == call # "advance" /\ AdvanceBy(RotateGap, MaxRotateElapsed)

RotateQuery == (curApp = EmptyStr => clk.el = 0) /\ OnAppNameIn(RotateNames)

NextRotate == \/ RotateTick \/ RotateAdvance \/ RotateQuery

SpecRotate == Init /\ [][NextRotate]_vars

\* The same display with a host that sets its title as it starts and ticks
\* every FETCH_GAP_MS, so that the boards scroll out several times within
\* the dwell time of a variant.
MaxDwellSteps == 170

MaxDwellElapsed == MaxDwellSteps * FETCH_GAP_MS

DwellQuery == call = "boot" /\ OnAppNameIn(RotateNames)

DwellAdvance == call = "tick" /\ AdvanceTo(MaxDwellElapsed)

NextDwell == \/ DwellQuery \/ RotateTick \/ DwellAdvance

SpecDwell == Init /\ [][NextDwell]_vars

\* The same host against a server whose documents hold scoreboards without
\* rows, alone or next to a usable one.
MaxSparseSteps == 45

MaxSparseElapsed == MaxSparseSteps * FETCH_GAP_MS

SparseTick == call # "tick" /\ TickIn("sparse", MaxSparseElapsed)

SparseAdvance == call = "tick" /\ AdvanceTo(MaxSparseElapsed)

NextSparse == \/ DwellQuery \/ SparseTick \/ SparseAdvance

SpecSparse == Init /\ [][NextSparse]_vars

\* a variant advance has marked the model not loaded: a load has succeeded
\* since the last reset (lastModelSwitch is its time) and loaded is false
AwaitingVariant ==
  Len(curApp) > 0 /\ resolved /\ ~loaded /\ lastModelSwitch # W32(0)

\* The same host against a server that may fail to serve the document of one
\* variant; while the engine waits for that variant the host may set a title
\* or call begin() again.
LameTick == call # "tick" /\ TickIn("lame", MaxRotateElapsed)

LameQuery == call = "advance" /\ AwaitingVariant /\ OnAppNameIn(RotateNames)

LameBegin == call = "advance" /\ AwaitingVariant /\ Begin

NextLame == \/ DwellQuery \/ LameTick \/ DwellAdvance \/ LameQuery \/ LameBegin

SpecLame == Init /\ [][NextLame]_vars

\* ------------------------------------------------------------------------
\* The cache scenario: the cache functions and setCacheLimits called
\* directly, in any order, on three keys, while seconds pass.
\* ------------------------------------------------------------------------
MaxCacheCalls == 4

MaxCacheSeconds == 2

OneSecond == 10 * FETCH_GAP_MS

CacheUrls ==
  { SearchUrl(DefaultBase), ByIdUrl(DefaultBase, IdA), ByIdUrl(DefaultBase, IdB) }

CacheBodies == { IndexA, DocGood }

\* the arguments given to setCacheLimits
LimitArgs == { << f, b, a >> : f \in 0..2, b \in { 0, DocGood.size - 1 },
                               a \in { W32(0), W32(OneSecond \div 2) } }

CacheOracles(s) ==
  { [NetOracle(TRUE) EXCEPT !.mount = mount, !.wr = wr] :
      mount \in (IF s.fsReady THEN { TRUE } ELSE BOOLEAN), wr \in { "ok", "fail" } }

CacheWrite ==
  /\ ncalls < MaxCacheCalls
  /\ \E c \in { Cur }, url \in CacheUrls, body \in CacheBodies :
       \E o \in CacheOracles(c) : \E s \in cacheWrite(c, o, url, body) :
         CommitWith([s EXCEPT !.tr.cache = [NoCacheCall EXCEPT !.url = url, !.body = body,
                                                             !.ok = cacheWriteOk(c, o)]],
                    "cacheWrite",
                    IF cacheWriteOk(c, o) THEN PutFile(wrote, sanitizeKey(url), ncalls + 1)
                    ELSE wrote)

CacheRead ==
  /\ ncalls < MaxCacheCalls
  /\ \E c \in { Cur }, url \in CacheUrls, maxAgeMs \in { W32(0), TTL_BYID_MS },
        allowStale \in BOOLEAN :
       \E o \in CacheOracles(c) : \E r \in { cacheRead(c, o, url, maxAgeMs, allowStale) } :
         Commit([r.s EXCEPT !.tr.cache = [NoCacheCall EXCEPT !.url = url, !.ok = r.ok,
                                                            !.out = r.out]],
                "cacheRead")

SetCacheLimits ==
  /\ ncalls < MaxCacheCalls
  /\ \E c \in { Cur }, l \in LimitArgs :
       Commit([setCacheLimits(c, l[1], l[2], l[3]) EXCEPT
                 !.tr.cache = [NoCacheCall EXCEPT !.limits = l]],
              "setCacheLimits")

CacheAdvance == AdvanceBy(OneSecond, MaxCacheSeconds * OneSecond)

NextCache ==
  \/ CacheWrite
  \/ CacheRead
  \/ SetCacheLimits
  \/ CacheAdvance

SpecCache == Init /\ [][NextCache]_vars

\* ------------------------------------------------------------------------
\* The recovery scenario: until GoodFrom the network, the server and
\* SPIFFS answer as they like; from GoodFrom on the network is up and the
\* server answers every fetch.  The host ticks every FETCH_GAP_MS.
\* ------------------------------------------------------------------------
MaxBadSteps == 8

MaxLiveSteps == 40

GoodFrom == MaxBadSteps * FETCH_GAP_MS

MaxLiveElapsed == MaxLiveSteps * FETCH_GAP_MS

LiveEnv == IF clk.el < GoodFrom THEN "any" ELSE "steady"

LiveTick == call # "tick" /\ TickIn(LiveEnv, MaxLiveElapsed)

LiveAdvance == call # "advance" /\ AdvanceTo(MaxLiveElapsed)

\* the host announces one title as it starts
LiveQuery == clk.el = 0 /\ curApp = EmptyStr /\ OnAppNameIn(RotateNames)

NextLive == \/ LiveTick \/ LiveAdvance \/ LiveQuery

\* A step of NextLive that makes call "tick" is a LiveTick step, and LiveTick
\* is enabled whenever the last call was not a tick and the time limit is
\* not passed (tick always returns); likewise for "advance".  Fairness is
\* stated on these two, which change call whenever they happen.
TickCalled == call # "tick" /\ clk.el <= MaxLiveElapsed /\ call' = "tick"

TimePassed == call # "advance" /\ clk.el + FETCH_GAP_MS <= MaxLiveElapsed /\ call' = "advance"

\* the host loop keeps calling tick() and time keeps passing
SpecLive == Init /\ [][NextLive]_vars /\ WF_call(TickCalled) /\ WF_call(TimePassed)

\* ------------------------------------------------------------------------
\* The counter about to wrap.  While the host shows no title tick returns at
\* line 1046 and nothing changes but millis(): the scenario starts after
\* 49.7 days of that, WrapLead ms before the counter wraps (el, the time the
\* scenario has lasted, is counted from there).  The host then sets a title;
\* the network is up and the server answers no probe.
\* ------------------------------------------------------------------------
MaxWrapSteps == 30

MaxWrapElapsed == MaxWrapSteps * FETCH_GAP_MS

WrapLeads == { 150, 350, 550, 750, 1000 }

\* 2^32 ms in whole seconds, rounded up: 49.7 days
WrapSeconds == (Half \div 1000) * Half + ((Half % 1000) * Half) \div 1000 + 1

\* the word of 2^32 - k, for 0 < k <= 65536
BeforeWrap(k) == << Half - 1, Half - k >>

IdleUntilWrap ==
  /\ call = "boot"
  /\ \E k \in WrapLeads : clk' = [clk EXCEPT !.now = BeforeWrap(k), !.off = WrapSeconds - 1]
  /\ tr' = NoTrace
  /\ call' = "idle"
  /\ pre' = [curApp |-> curApp, active |-> FALSE]
  /\ UNCHANGED << engine, files, won, lastAt, ncalls, nprobes, wrote, io >>

\* the host sets the title once and then calls tick every FETCH_GAP_MS
WrapQuery == call = "idle" /\ OnAppNameIn({ QHalo })

WrapTick == call \in { "onAppName", "advance" } /\ TickIn("down", MaxWrapElapsed)

WrapAdvance == call = "tick" /\ AdvanceTo(MaxWrapElapsed)

NextWrap == \/ IdleUntilWrap \/ WrapTick \/ WrapAdvance \/ WrapQuery

SpecWrap == Init /\ [][NextWrap]_vars

\* The same host with a loop that is sometimes slow: now and then LagTicks
\* gaps pass between two calls of tick.
LagTicks == 3

LagAdvance == call = "tick" /\ AdvanceBy(LagTicks * FETCH_GAP_MS, MaxWrapElapsed)

NextLag == \/ IdleUntilWrap \/ WrapTick \/ WrapAdvance \/ LagAdvance \/ WrapQuery

SpecLag == Init /\ [][NextLag]_vars

\* ------------------------------------------------------------------------
\* The display as millis() wraps: the same host, with a server that answers
\* every fetch, so that the title is loaded and its freeze window lies
\* before, across or after the wrap.
\* ------------------------------------------------------------------------
NextFreeze == \/ IdleUntilWrap \/ WrapQuery \/ RotateTick \/ WrapAdvance

SpecFreeze == Init /\ [][NextFreeze]_vars

\* ------------------------------------------------------------------------
\* Root discovery against a server that, for each candidate and at each
\* probe, fails, answers a body that does not parse or answers an index.
\* The host sets one title and ticks every PROBE_SPACING_MS, through a first
\* sweep, the back-off and a second sweep over what the first left in the
\* cache.  Once a root is confirmed the device restarts: the static variables
\* are initialized again and millis() restarts, SPIFFS keeps the cache.
\* ------------------------------------------------------------------------
MaxAcceptSteps == 17

MaxAcceptElapsed == MaxAcceptSteps * PROBE_SPACING_MS

AcceptQuery == call = "boot" /\ OnAppNameIn({ QHalo })

AcceptTick ==
  call \in { "onAppName", "advance" } /\ WORK_ROOT = EmptyStr /\ TickIn("mixed", MaxAcceptElapsed)

AcceptAdvance == call = "tick" /\ AdvanceBy(PROBE_SPACING_MS, MaxAcceptElapsed)

Reboot ==
  /\ WORK_ROOT # EmptyStr
  /\ BASE' = DefaultBase /\ WORK_ROOT' = EmptyStr /\ curApp' = EmptyStr
  /\ gameTitle' = EmptyStr /\ haveSearch' = FALSE /\ resolved' = FALSE /\ loaded' = FALSE
  /\ titlePool' = << >> /\ curTitleIdx' = -1 /\ lastModelSwitch' = W32(0)
  /\ boards' = << >> /\ curBoard' = -1 /\ scrollY' = 0 /\ lastStep' = W32(0)
  /\ lastBoardSwitch' = W32(0) /\ freezeUntilMs' = W32(0) /\ lastFetchMs' = W32(0)
  /\ probeList' = << >> /\ probeIdx' = 0 /\ nextProbeAt' = W32(0)
  /\ lastDiag' = << >> /\ lastQueryRaw' = EmptyStr /\ lastQueryNorm' = EmptyStr
  /\ fsReady' = FALSE /\ flushOnBoot' = FALSE
  /\ cacheMaxFiles' = DefaultMaxFiles /\ cacheMaxBytes' = DefaultMaxBytes
  /\ cacheMaxAgeMs' = DefaultMaxAgeMs
  /\ clk' = [clk EXCEPT !.now = W32(0)]
  /\ tr' = NoTrace
  /\ call' = "boot"
  /\ won' = {}
  /\ lastAt' = -1
  /\ ncalls' = 0
  /\ nprobes' = 0
  /\ pre' = [curApp |-> EmptyStr, active |-> FALSE]
  /\ UNCHANGED << files, wrote, io >>

NextAccept == \/ AcceptQuery \/ AcceptTick \/ AcceptAdvance \/ Reboot

SpecAccept == Init /\ [][NextAccept]_vars

\* ------------------------------------------------------------------------
\* The cache across a long idle period: direct cacheWrite calls with the
\* default limits, seconds passing, and once a period of 49.7 days without
\* a title, during which tick returns at line 1046 and nothing is written:
\* millis() and time(nullptr) move on, the files stay.
\* ------------------------------------------------------------------------
LongIdle ==
  /\ clk.off = 0 /\ clk.el > 0 /\ curApp = EmptyStr
  /\ clk' = [clk EXCEPT !.now = Add32(@, MulK32(WrapSeconds)), !.off = WrapSeconds]
  /\ tr' = NoTrace
  /\ call' = "idle"
  /\ pre' = [curApp |-> curApp, active |-> FALSE]
  /\ UNCHANGED << engine, files, won, lastAt, ncalls, nprobes, wrote, io >>

\* cacheRead(url, out, maxAgeMs, false) called directly: the strict read, with
\* the max-age it was given recorded as a step
StrictRead ==
  /\ ncalls < MaxCacheCalls
  /\ \E c \in { Cur }, url \in CacheUrls, maxAgeMs \in { W32(0), TTL_BYID_MS } :
       \E o \in CacheOracles(c) : \E r \in { cacheRead(c, o, url, maxAgeMs, FALSE) } :
         Commit(Stepped([r.s EXCEPT !.tr.cache = [NoCacheCall EXCEPT !.url = url, !.ok = r.ok,
                                                                    !.out = r.out]],
                        "strict", url, maxAgeMs, r.ok, r.out),
                "cacheRead")

NextAge == \/ CacheWrite \/ CacheRead \/ StrictRead \/ CacheAdvance \/ LongIdle

SpecAge == Init /\ [][NextAge]_vars

\* ------------------------------------------------------------------------
\* Specification SpecFetch: a title is asked for and the engine is begun
\* again while the server answers or fails; between two ticks a second
\* passes, or the time after which a cached document, or the cached index,
\* is no longer fresh.  SPIFFS works and a fetch takes no time.
\* ------------------------------------------------------------------------
\* the seconds that pass one by one before and after the long waits
MaxFetchSeconds == 4

FetchWindow == MaxFetchSeconds * OneSecond

DocumentStale == Val32(TTL_BYID_MS) + OneSecond

IndexStale == Val32(TTL_SEARCH_MS) + OneSecond

MaxFetchElapsed == DocumentStale + IndexStale + FetchWindow

InFetchWindow ==
  \E w \in { 0, DocumentStale, IndexStale, DocumentStale + IndexStale } :
     clk.el >= w /\ clk.el <= w + FetchWindow

FetchQuery == call = "advance" /\ OnAppNameIn({ QHalo })

\* the host calls begin() again, which resets the engine and keeps the title
FetchBegin == call = "advance" /\ Begin

FetchTick == call # "tick" /\ TickIn("flaky", MaxFetchElapsed)

FetchAdvance == call = "tick" /\ InFetchWindow /\ AdvanceBy(OneSecond, MaxFetchElapsed)

FetchIdle ==
  /\ call = "tick" /\ InFetchWindow
  /\ \E d \in { DocumentStale, IndexStale } : AdvanceBy(d, MaxFetchElapsed)

NextFetch == \/ FetchQuery \/ FetchBegin \/ FetchTick \/ FetchAdvance \/ FetchIdle

SpecFetch == Init /\ [][NextFetch]_vars

\* ------------------------------------------------------------------------
\* Functions applied on their own: the argument is drawn at the start and
\* one step applies the function to it; the engine is not touched.
\* ------------------------------------------------------------------------
others == << engine, files, clk, tr, call, won, lastAt, ncalls, nprobes, pre, wrote >>

ToApply(fn, arg) == [fn |-> fn, arg |-> arg, done |-> FALSE, out |-> << >>]

Applied(fn) == io.fn = fn /\ io.done

\* the sequences without repetition of at most n elements of S
RECURSIVE Arrangements(_, _)
Arrangements(S, n) ==
  IF n = 0 THEN { << >> }
  ELSE { << >> } \cup { << x >> \o r : x \in S, r \in Arrangements(S, n - 1) }

Distinct(q) == \A i, j \in DOMAIN q : q[i] = q[j] => i = j

\* The scorer: queries in two spellings, a query of punctuation only, and
\* indexes of every order over entries that match them exactly by name, by
\* slug, without an id, or not at all.
MaxIndexLen == 3

QShout == <<"h","A","L","O">>

QBangs == <<"!","!">>

ScoreQueries == { QHalo, QShout, QHalo2, QBangs }

ScoreEntries ==
  { Entry(IdA, <<"H","A","L","O">>, EmptyStr),
    Entry(IdB, QHalo2, <<"h","a","l","o">>),
    Entry(EmptyStr, QHalo, EmptyStr),
    Entry(IdC, QBangs, EmptyStr),
    Entry(IdD, QPong, <<"p","o","n","g">>),
    [Entry(EmptyStr, <<"h","a","l","o">>, EmptyStr) EXCEPT !.has_id = FALSE] }

ScoreIndexes ==
  { x \in Arrangements(ScoreEntries, MaxIndexLen) : x # << >> /\ Distinct(x) }

InitScore ==
  \E q \in ScoreQueries, x \in ScoreIndexes :
    InitWith(ToApply("resolve", [query |-> q, index |-> x]))

ApplyResolve ==
  /\ io.fn = "resolve" /\ ~io.done
  /\ io' = [io EXCEPT !.done = TRUE,
                      !.out = [scan |-> ResolveOf(io.arg.query, io.arg.index),
                               scores |-> ScoresOf(io.arg.query, io.arg.index)]]
  /\ UNCHANGED others

SpecScore == InitScore /\ [][ApplyResolve]_vars

\* The normalizer: every text of at most MaxTextLen characters over a small
\* alphabet (the letter x, a Roman digit, another letter, a digit, a space
\* and a punctuation mark), and a few titles.
MaxTextLen == 3

NormAlphabet == { "x", "i", "b", "2", " ", "-" }

RECURSIVE Texts(_)
Texts(n) ==
  IF n = 0 THEN { EmptyStr }
  ELSE { EmptyStr } \cup { << c >> \o r : c \in NormAlphabet, r \in Texts(n - 1) }

NormTitles ==
  { <<"X","b","o","x"," ","L","i","v","e">>,
    <<"T","h","e"," ","T","h","e"," ","S","i","m","s">>,
    <<"T","h","e"," ","S","i","m","s"," ","I","I">>,
    <<"x","X","x">>,
    <<"H","a","l","o"," ","&"," ","X">> }

NormInputs == Texts(MaxTextLen) \cup NormTitles

\* the tokens joined by single spaces
RECURSIVE SpaceJoined(_)
SpaceJoined(toks) ==
  IF toks = << >> THEN EmptyStr
  ELSE IF Len(toks) = 1 THEN toks[1]
  ELSE toks[1] \o << " " >> \o SpaceJoined(Tail(toks))

InitNorm == \E x \in NormInputs : InitWith(ToApply("tokenize", x))

\* tokenize(x), and tokenize of its tokens joined by spaces
ApplyTokenize ==
  /\ io.fn = "tokenize" /\ ~io.done
  /\ io' = [io EXCEPT !.done = TRUE,
                      !.out = [toks |-> tokenize(io.arg),
                               again |-> tokenize(SpaceJoined(tokenize(io.arg)))]]
  /\ UNCHANGED others

SpecNorm == InitNorm /\ [][ApplyTokenize]_vars

\* The board parser: one scoreboard of at most MaxRows rows in every order,
\* with no declared columns, with rank, name and score declared, or with
\* name and score only.  The rows are keyed objects with a numeric rank, a
\* rank of letters, a rank of letters then digits and no rank, positional
\* arrays (one of them empty) and a scalar.
MaxRows == 4

ColRank == <<"r","a","n","k">>

ColName == <<"n","a","m","e">>

ColScore == <<"s","c","o","r","e">>

NoRankRow ==
  [kind |-> "object", pairs |-> << << ColName, << "n" >> >>, << ColScore, << "4" >> >> >>,
   vals |-> << >>, val |-> EmptyStr]

ArrayRow(vals) == [kind |-> "array", pairs |-> << >>, vals |-> vals, val |-> EmptyStr]

ScalarRow(val) == [kind |-> "scalar", pairs |-> << >>, vals |-> << >>, val |-> val]

RowPool ==
  { KeyedRow(<<"1","0">>, << "p" >>, << "7" >>),
    KeyedRow(<< "2" >>, << "q" >>, << "8" >>),
    KeyedRow(<<"a","b","c">>, << "r" >>, << "9" >>),
    KeyedRow(<< "1" >>, << "s" >>, << "6" >>),
    KeyedRow(<<"a","1">>, << "t" >>, << "5" >>),
    NoRankRow,
    ArrayRow(<< << "3" >>, << "u" >>, << "2" >> >>),
    ArrayRow(<< >>),
    ScalarRow(<< "v" >>) }

ColumnChoices == { << >>, << ColRank, ColName, ColScore >>, << ColName, ColScore >> }

BoardInputs ==
  { [is_object |-> TRUE, name |-> << "a" >>, columns |-> cols, has_rows |-> TRUE, rows |-> rows]
      : cols \in ColumnChoices,
        rows \in { x \in Arrangements(RowPool, MaxRows) : Distinct(x) } }

InitBoard == \E sb \in BoardInputs : InitWith(ToApply("board", sb))

\* the rows as pushed (lines 829-921) and the boards after the sort
ApplyBoard ==
  /\ io.fn = "board" /\ ~io.done
  /\ \E bs \in BoardOutcomes(<< io.arg >>) :
       io' = [io EXCEPT !.done = TRUE,
                        !.out = [pushed |-> ParseBoardRows(io.arg), boards |-> bs]]
  /\ UNCHANGED others

SpecBoard == InitBoard /\ [][ApplyBoard]_vars

\* The metric choice: the extras of one row, at most MaxExtras of them in
\* every order, as lines 851-895 leave them (key=value, the key not empty and
\* neither rank-like nor name-like): preferred keys in several spellings,
\* keys outside the list, and a value that holds an equals sign.
MaxExtras == 3

ExtraPool ==
  { <<"S","c","o","r","e","=","5","0","0">>,
    <<"L","a","p","s","=","3">>,
    <<"s","c","o","r","e","=","1">>,
    <<"P","O","I","N","T","S","=","9">>,
    <<"F","o","o","=","4">>,
    <<"B","a","r","=","a","=","b">> }

ExtraInputs == { x \in Arrangements(ExtraPool, MaxExtras) : Distinct(x) }

BlankRow == [rank |-> << "1" >>, name |-> EmptyStr, metric |-> EmptyStr, extras |-> << >>]

InitMetric == \E x \in ExtraInputs : InitWith(ToApply("metric", x))

ApplyMetric ==
  /\ io.fn = "metric" /\ ~io.done
  /\ io' = [io EXCEPT !.done = TRUE, !.out = ChooseMetric(BlankRow, io.arg)]
  /\ UNCHANGED others

SpecMetric == InitMetric /\ [][ApplyMetric]_vars

\* ------------------------------------------------------------------------
\* Properties
\* ------------------------------------------------------------------------
\* the kinds of attempt the last call made, and those of them that succeeded
Attempts == { tr.attempts[i] : i \in 1..Len(tr.attempts) }

Wins == { tr.wins[i] : i \in 1..Len(tr.wins) }

\* the candidate roots of the configured base
BaseCandidates == { buildCandidateRoots(BASE)[i] : i \in 1..Len(buildCandidateRoots(BASE)) }

\* C1: isActive() is true only if the current query is non-empty and, since
\* the query last changed, a resolution attempt and a load attempt have both
\* succeeded (resolved and loaded are both set); before that it is false.
C1_ActiveOnlyAfterSuccess ==
  isActive(Cur) =>
    Len(curApp) > 0 /\ resolved /\ loaded /\ { "resolve", "load" } \subseteq won

\* a tick has just loaded the model and the engine is active
C1_Witness == isActive(Cur) /\ call = "tick" /\ "load" \in Wins

\* C2: no resolution attempt is made while no root is confirmed, no load
\* attempt is made while the query is unresolved, and every state reached
\* satisfies loaded => resolved => WORK_ROOT non-empty.
C2_DiscoveryBeforeResolveBeforeLoad ==
  [][ /\ "resolve" \in Attempts' => Len(WORK_ROOT) > 0
      /\ "load" \in Attempts' => resolved /\ Len(WORK_ROOT) > 0
      /\ loaded' => resolved'
      /\ resolved' => Len(WORK_ROOT') > 0 ]_vars

\* a tick has just made a load attempt, and it succeeded
C2_Witness == call = "tick" /\ tr.attempts = << "load" >> /\ loaded /\ resolved

\* C3: onAppName with a trimmed name different from the current query resets
\* the engine at once: resolved and loaded are false, the title pool and the
\* boards are empty, curTitleIdx and curBoard are -1, and isActive() stays
\* false until a later tick has resolved and loaded for the new query.
C3_QueryChangeResets ==
  [][ /\ call' = "onAppName" /\ curApp' # curApp =>
           /\ ~resolved' /\ ~loaded' /\ titlePool' = << >> /\ boards' = << >>
           /\ curTitleIdx' = -1 /\ curBoard' = -1 /\ ~isActive(Cur)'
           /\ won' = {}
      /\ ~isActive(Cur) /\ isActive(Cur)' =>
           call' = "tick" /\ "load" \in Wins' /\ "resolve" \in won' ]_vars

\* the query of an active engine has just been changed
C3_Witness == call = "onAppName" /\ pre.active /\ pre.curApp # curApp /\ ~isActive(Cur)

\* C4: onAppName with a name equal to the current query after trimming leaves
\* the whole engine state unchanged (flags, pool, index, boards, current
\* board, scroll, probe state), and the cache with it.
C4_SameNameChangesNothing ==
  [][ call' = "onAppName" /\ curApp' = curApp => UNCHANGED << engine, files, clk >> ]_vars

\* the name of an active query has just been delivered again
C4_Witness ==
  call = "onAppName" /\ pre.active /\ pre.curApp = curApp /\ isActive(Cur)
  /\ boards # << >>

\* C5: a query change clears pool, boards and flags but leaves WORK_ROOT and
\* every cache entry unchanged, and the new query is resolved against that
\* root without a new probe.
C5_QueryChangeKeepsRootAndCache ==
  [][ /\ call' = "onAppName" /\ curApp' # curApp =>
           /\ titlePool' = << >> /\ boards' = << >>
           /\ ~haveSearch' /\ ~resolved' /\ ~loaded'
           /\ WORK_ROOT' = WORK_ROOT /\ files' = files
      /\ "resolve" \in Attempts' =>
           /\ "probe" \notin Attempts'
           /\ WORK_ROOT' = WORK_ROOT
           /\ \A i \in 1..Len(tr'.fetches) : tr'.fetches[i] = SearchUrl(WORK_ROOT) ]_vars

\* the query has just been changed with a root confirmed and entries cached
C5_Witness ==
  call = "onAppName" /\ pre.curApp # curApp /\ Len(pre.curApp) > 0
  /\ Len(WORK_ROOT) > 0 /\ files # NoFiles

\* C6: once a root is confirmed WORK_ROOT keeps that value in every later
\* state, and no candidate is probed again.
C6_RootIsFixed ==
  [][ Len(WORK_ROOT) > 0 => WORK_ROOT' = WORK_ROOT /\ "probe" \notin Attempts' ]_vars

\* a probe has confirmed the root, and a later tick has made its attempt
\* against that root without probing
C6_Witness ==
  Len(WORK_ROOT) > 0 /\ nprobes >= 1 /\ call = "tick" /\ "resolve" \in Attempts

\* C7: after setServerBase(b) the probes target candidates derived from b:
\* every candidate a tick probes is a candidate root of the configured base.
C7_ProbesFollowBase ==
  [][ "probe" \in Attempts' =>
        /\ probeIdx' >= 1 /\ probeIdx' <= Len(probeList')
        /\ probeList'[probeIdx'] \in BaseCandidates ]_vars

\* C8: with three candidates of which only the third serves a parseable
\* index, the root is confirmed by the third probe and is the third
\* candidate, and nothing is probed after that.
C8_ThirdCandidateAfterThreeProbes ==
  /\ nprobes <= 3
  /\ Len(WORK_ROOT) > 0 <=> nprobes = 3
  /\ Len(WORK_ROOT) > 0 => WORK_ROOT = ThirdRoot
  /\ Len(buildCandidateRoots(BASE)) = 3

\* the third probe has confirmed the root and a later tick has run
C8_Witness ==
  WORK_ROOT = ThirdRoot /\ nprobes = 3 /\ call = "tick" /\ "probe" \notin Attempts

\* C9: a tick makes at most one of probe step, resolve attempt and load
\* attempt and at most one HTTP fetch, and two consecutive attempts are at
\* least 100 ms apart.
C9_OneAttemptPerTick ==
  /\ Len(tr.attempts) <= 1
  /\ Len(tr.fetches) <= 1
  /\ tr.attempts # << >> => call = "tick"
  /\ tr.since >= 0 => tr.since >= FETCH_GAP_MS

\* a tick has made an attempt with a fetch exactly 100 ms after the last one
C9_Witness ==
  call = "tick" /\ Len(tr.attempts) = 1 /\ Len(tr.fetches) = 1 /\ tr.since = FETCH_GAP_MS

\* C10: a load attempt that fails leaves boards, curBoard and gameTitle with
\* the values they had before the attempt.
C10_FailedLoadChangesNothing ==
  [][ "load" \in Attempts' /\ "load" \notin Wins' =>
        boards' = boards /\ curBoard' = curBoard /\ gameTitle' = gameTitle ]_vars

\* C11: after a resolve attempt that found no entry reaching the acceptance
\* threshold, the last-match diagnostics (what dumpSearchDebug reports) are
\* the near-miss candidates of that attempt.
C11_FailedResolveKeepsNearMisses ==
  call = "tick" /\ "resolve" \in Attempts /\ "resolve" \notin Wins /\ tr.scanned
    => lastDiag = tr.scan.diags

\* C19: a resolve attempt for the query "Halo 2" against the index holding
\* exactly AA "Halo 2 (NTSC)" and BB "Halo 2 (PAL)" succeeds with a title
\* pool of size 2 made of AA and BB.
C19_Halo2ResolvesBothVariants ==
  /\ call = "tick" /\ "resolve" \in Attempts /\ tr.scanned
  /\ curApp = QHalo2 /\ tr.scan.entries = IndexHalo2.entries
  => /\ "resolve" \in Wins /\ resolved
     /\ Len(titlePool) = 2
     /\ { titlePool[i] : i \in DOMAIN titlePool } = { IdA, IdB }

\* a non-empty string b occurs in a
Occurs(a, b) == Len(b) > 0 /\ \E i \in 0..(Len(a) - Len(b)) : SubSeq(a, i + 1, i + Len(b)) = b

\* the query q shares no token with the name or the slug of entry e, and
\* neither normalized string occurs in the other
UnrelatedEntry(q, e) ==
  /\ ~SharesToken(tokenize(q), tokenize(e.name))
  /\ ~SharesToken(tokenize(q), tokenize(e.slug))
  /\ ~Occurs(normKey(e.name), normKey(q)) /\ ~Occurs(normKey(q), normKey(e.name))
  /\ ~Occurs(normKey(e.slug), normKey(q)) /\ ~Occurs(normKey(q), normKey(e.slug))

\* C20: hard gate: a resolve attempt over an index made only of entries
\* unrelated to the query (no shared token, neither normalized string inside
\* the other) scores every entry 0, so it keeps no candidate and accepts no
\* match, whatever the bigram similarity.
C20_UnrelatedIndexNeverMatches ==
  /\ call = "tick" /\ "resolve" \in Attempts /\ tr.scanned
  /\ \A i \in DOMAIN tr.scan.entries : UnrelatedEntry(curApp, tr.scan.entries[i])
  => "resolve" \notin Wins /\ ~resolved /\ tr.scan.diags = << >>

\* C18: after a successful resolve attempt every id of the title pool is
\* the title_id of an index entry whose family key is the family key of the
\* matched entry, no id occurs twice in the pool, and the id of the matched
\* entry is in the pool.
C18_PoolIsTheFamilyOfTheMatch ==
  call = "tick" /\ "resolve" \in Wins /\ tr.scanned =>
    /\ \A i \in DOMAIN titlePool :
         \E k \in DOMAIN tr.scan.entries :
           /\ tr.scan.entries[k].has_id
           /\ tr.scan.entries[k].title_id = titlePool[i]
           /\ FamilyOf(tr.scan.entries[k].name, tr.scan.entries[k].slug)
                = FamilyOf(tr.scan.best.name, tr.scan.best.slug)
    /\ \A i, j \in DOMAIN titlePool : titlePool[i] = titlePool[j] => i = j
    /\ SeqContains(titlePool, tr.scan.best.id)

\* a resolve attempt has won against the six-entry index: the pool holds the
\* two ids of the matched family and leaves the other titles out
C18_Witness ==
  /\ call = "tick" /\ "resolve" \in Wins /\ tr.scanned
  /\ Len(tr.scan.entries) = 6 /\ titlePool = << IdA, IdB >>

\* C15: while SPIFFS is not mounted no call changes the files of the cache,
\* and every probe, resolve and load attempt goes to the network as after a
\* cache miss (it makes exactly one HTTP fetch): cacheRead and cacheWrite
\* have failed without effect.
C15_UnmountedStoreIsAMiss ==
  [][ ~fsReady' =>
        /\ files' = files
        /\ tr'.attempts # << >> => Len(tr'.fetches) = 1 ]_vars

\* probing, resolution and loading have all succeeded, the last in this
\* tick, and SPIFFS has never been mounted
C15_Witness ==
  /\ call = "tick" /\ "load" \in Wins /\ isActive(Cur)
  /\ ~fsReady /\ files = NoFiles

\* C17: in every reachable state resolved implies a non-empty title pool,
\* a non-empty pool has 0 <= curTitleIdx < its size, and an empty pool has
\* curTitleIdx = -1: after the random seed of a resolution, after every
\* variant advance and after every reset.
C17_PoolIndexValid ==
  /\ resolved => titlePool # << >>
  /\ titlePool # << >> => 0 <= curTitleIdx /\ curTitleIdx < Len(titlePool)
  /\ titlePool = << >> => curTitleIdx = -1

\* a board switch has advanced the variant of a two-variant pool from the
\* last index back to the first, and the new variant is not loaded yet
C17_Witness ==
  /\ call = "tick" /\ resolved /\ ~loaded
  /\ lastBoardSwitch = clk.now /\ lastBoardSwitch # W32(0)
  /\ Len(titlePool) = 2 /\ curTitleIdx = 0

\* C13: cache round trip: with SPIFFS mounted, a cacheWrite that returned
\* true followed at once by a cacheRead of the same key, with any max-age,
\* returns true with the body written, whatever the limits and the other
\* entries.
C13_WriteThenReadRoundTrip ==
  [][ /\ call = "cacheWrite" /\ tr.cache.ok
      /\ call' = "cacheRead" /\ tr'.cache.url = tr.cache.url
      => tr'.cache.ok /\ tr'.cache.out = tr.cache.body ]_vars

\* C14: after a cacheWrite that returned true, once more distinct keys have
\* been written than cacheMaxFiles, at most cacheMaxFiles entries are on
\* disk and every entry that is gone was last written before every entry
\* that is still there.
C14_EvictionKeepsMostRecent ==
  [][ call' = "cacheWrite" /\ tr'.cache.ok /\ Cardinality(DOMAIN wrote') > cacheMaxFiles'
      => /\ Cardinality(DOMAIN files') <= cacheMaxFiles'
         /\ \A q \in (DOMAIN wrote') \ (DOMAIN files'), p \in DOMAIN files' :
              wrote'[q] < wrote'[p] ]_vars

\* C16 as stated: setCacheLimits(maxFiles, maxBytes, maxAgeMs) makes its
\* three arguments the limits, for every argument triple.
C16_LimitsAreTheArguments ==
  [][ call' = "setCacheLimits" =>
        /\ cacheMaxFiles' = tr'.cache.limits[1]
        /\ cacheMaxBytes' = tr'.cache.limits[2]
        /\ cacheMaxAgeMs' = tr'.cache.limits[3] ]_vars

\* C16: setCacheLimits makes each non-zero argument the limit and leaves
\* the limit of a zero argument as it was; no other call changes a limit,
\* and every later prune enforces the limits then in force: after a
\* cacheWrite that returned true the cache holds at most cacheMaxFiles files
\* and cacheMaxBytes bytes and no file older than cacheMaxAgeMs.
C16_NonZeroLimitsTakeEffect ==
  [][ /\ call' = "setCacheLimits" =>
           /\ cacheMaxFiles' = IF tr'.cache.limits[1] # 0 THEN tr'.cache.limits[1]
                                ELSE cacheMaxFiles
           /\ cacheMaxBytes' = IF tr'.cache.limits[2] # 0 THEN tr'.cache.limits[2]
                                ELSE cacheMaxBytes
           /\ cacheMaxAgeMs' = IF tr'.cache.limits[3] # W32(0) THEN tr'.cache.limits[3]
                                ELSE cacheMaxAgeMs
      /\ call' # "setCacheLimits" =>
           /\ cacheMaxFiles' = cacheMaxFiles /\ cacheMaxBytes' = cacheMaxBytes
           /\ cacheMaxAgeMs' = cacheMaxAgeMs
      /\ call' = "cacheWrite" /\ tr'.cache.ok =>
           /\ Cardinality(DOMAIN files') <= cacheMaxFiles'
           /\ dirSize(files') <= cacheMaxBytes'
           /\ \A p \in DOMAIN files' :
                ~TooOld(clk'.el \div OneSecond, files'[p].mtime, cacheMaxAgeMs') ]_vars

\* setCacheLimits has lowered the file limit and kept the byte limit, and
\* the prune of a later cacheWrite has removed a file to meet the new limit
C16_Witness ==
  /\ call = "cacheWrite" /\ tr.cache.ok
  /\ cacheMaxFiles = 1 /\ cacheMaxBytes = DefaultMaxBytes
  /\ Cardinality(DOMAIN wrote) = 2 /\ Cardinality(DOMAIN files) = 1

\* C12: failed probe, resolve and load attempts are retried on later ticks
\* without limit: under fair ticking, once the network is up, a candidate
\* root serves a parseable index with an acceptable match and the document of
\* the selected variant loads, a query set by the host leads to isActive().
C12_EventuallyActive == (curApp # EmptyStr) ~> isActive(Cur)

\* the engine has become active after the candidate list had been exhausted
\* and probed again
C12_Witness ==
  isActive(Cur) /\ nprobes > Len(probeList) /\ probeList # << >> /\ clk.el > GoodFrom


\* the entries of the index last scored whose name is the query, letter case
\* aside, and those of them that carry a usable id
ExactNamed ==
  { k \in DOMAIN io.arg.index : lc(io.arg.index[k].name) = lc(io.arg.query) }

ExactNamedWithId ==
  { k \in ExactNamed : io.arg.index[k].has_id /\ Len(io.arg.index[k].title_id) > 0 }

\* entry k is the only one to score 100 and it is the best match selected
OnlyTopIsBest(k) ==
  (\A j \in DOMAIN io.arg.index : j # k => io.out.scores[j] # 100) =>
     /\ io.out.scan.ok
     /\ io.out.scan.best.id = io.arg.index[k].title_id
     /\ io.out.scan.best.name = io.arg.index[k].name

\* C21 as stated: for every query and index, an entry whose name equals the
\* query case-insensitively scores 100, and it is the selected best match
\* whenever no other entry also scores 100, wherever it is in the index.
C21_ExactNameScores100AndWins ==
  Applied("resolve") =>
    \A k \in ExactNamed : io.out.scores[k] = 100 /\ OnlyTopIsBest(k)

\* C21 amended: for every query whose normalized form is not empty and
\* every index, an entry with a non-empty title_id whose name equals the
\* query case-insensitively scores 100, and it is the selected best match
\* whenever no other entry also scores 100, wherever it is in the index.
C21_ExactNameOfUsableQueryWins ==
  (Applied("resolve") /\ Len(normKey(io.arg.query)) > 0) =>
    \A k \in ExactNamedWithId : io.out.scores[k] = 100 /\ OnlyTopIsBest(k)

\* an exact name in the last place of an index whose other entries score
\* lower but are acceptable has been selected
C21_Witness ==
  /\ Applied("resolve")
  /\ Len(io.arg.index) = MaxIndexLen
  /\ MaxIndexLen \in ExactNamedWithId
  /\ io.out.scores[1] >= MIN_ACCEPT_SCORE /\ io.out.scores[1] < 100
  /\ io.out.scan.ok /\ io.out.scan.best.id = io.arg.index[MaxIndexLen].title_id

\* C22: the normalizer is idempotent on tokens: for every input x,
\* normalizing the space-joined tokens of normalize(x) yields the token
\* sequence of normalize(x).
C22_NormalizerIdempotent ==
  Applied("tokenize") => io.out.again = io.out.toks

\* the number written by the digits d of a rank
RECURSIVE DigitsValue(_, _)
DigitsValue(d, n) == IF d = << >> THEN n ELSE DigitsValue(Tail(d), 10 * n + DigitVal(Head(d)))

\* the digits a rank begins with
RECURSIVE LeadingDigits(_)
LeadingDigits(rs) ==
  IF rs = << >> \/ ~IsDigit(Head(rs)) THEN << >>
  ELSE << Head(rs) >> \o LeadingDigits(Tail(rs))

\* a rank from its first digit on
RECURSIVE FromFirstDigit(_)
FromFirstDigit(rs) ==
  IF rs = << >> \/ IsDigit(Head(rs)) THEN rs ELSE FromFirstDigit(Tail(rs))

\* the key of the claim: the integer of the leading digits, the sentinel
\* for a rank that does not begin with a digit
LeadingKey(rs) ==
  IF LeadingDigits(rs) = << >> THEN RANK_SENTINEL ELSE DigitsValue(LeadingDigits(rs), 0)

\* the integer of the first run of digits, the sentinel for a rank without
\* any digit
FirstRunKey(rs) == LeadingKey(FromFirstDigit(rs))

RanksOf(rows) == [i \in DOMAIN rows |-> rows[i].rank]

AscendingBy(rows, Key(_)) ==
  \A i, j \in DOMAIN rows : i < j => Key(rows[i].rank) <= Key(rows[j].rank)

ExampleRanks == << <<"1","0">>, << "2" >>, <<"a","b","c">>, << "1" >> >>

ExampleSorted == << << "1" >>, << "2" >>, <<"1","0">>, <<"a","b","c">> >>

ExampleHolds ==
  RanksOf(io.out.pushed) = ExampleRanks =>
    \A b \in DOMAIN io.out.boards : RanksOf(io.out.boards[b].rows) = ExampleSorted

C24_RankNeverEmpty ==
  Applied("board") =>
    \A b \in DOMAIN io.out.boards : \A i \in DOMAIN io.out.boards[b].rows :
      Len(io.out.boards[b].rows[i].rank) > 0

\* an extra is key=value: the text before and after its first equals sign
RECURSIVE BeforeEq(_)
BeforeEq(kv) ==
  IF kv = << >> \/ Head(kv) = "=" THEN << >> ELSE << Head(kv) >> \o BeforeEq(Tail(kv))

AfterEq(kv) == SubSeq(kv, Len(BeforeEq(kv)) + 2, Len(kv))

\* the place of a key in the preference list, letter case aside; 0 if absent
PrefPlace(key) ==
  LET hits == { i \in DOMAIN PREFER_METRIC : PREFER_METRIC[i] = lc(key) }
  IN  IF hits = {} THEN 0 ELSE CHOOSE i \in hits : TRUE

Listed(extras) == { i \in DOMAIN extras : PrefPlace(BeforeEq(extras[i])) > 0 }

\* the extra the claim designates: the first of those whose key comes
\* earliest in the list, the first extra when no key is listed
Designated(extras) ==
  IF Listed(extras) = {} THEN 1
  ELSE CHOOSE i \in Listed(extras) :
         \A j \in Listed(extras) :
           \/ PrefPlace(BeforeEq(extras[i])) < PrefPlace(BeforeEq(extras[j]))
           \/ (PrefPlace(BeforeEq(extras[i])) = PrefPlace(BeforeEq(extras[j])) /\ i <= j)

Without(extras, k) ==
  [i \in 1..(Len(extras) - 1) |-> IF i < k THEN extras[i] ELSE extras[i + 1]]

\* C25: the metric of a row is the value of the extra whose key is earliest
\* in the preference list (case-insensitive), or of the first extra when no
\* key is in the list; that extra is removed from the row's extras and all
\* the others stay, in order.  A row without extras has no metric.
C25_MetricIsPreferredExtra ==
  Applied("metric") =>
    IF io.arg = << >> THEN io.out.metric = EmptyStr /\ io.out.extras = << >>
    ELSE /\ io.out.metric = AfterEq(io.arg[Designated(io.arg)])
         /\ io.out.extras = Without(io.arg, Designated(io.arg))

\* extras Laps=3, POINTS=9, Foo=4 have given metric "9", taken from the
\* middle, and extras Laps=3, Foo=4
C25_Witness ==
  /\ Applied("metric")
  /\ io.arg = << <<"L","a","p","s","=","3">>, <<"P","O","I","N","T","S","=","9">>,
                 <<"F","o","o","=","4">> >>
  /\ io.out.metric = << "9" >>
  /\ io.out.extras = << <<"L","a","p","s","=","3">>, <<"F","o","o","=","4">> >>

\* C26: while no root is confirmed, two consecutive probe attempts are at
\* least PROBE_SPACING_MS apart, however often tick is called.
C26_ProbesAtLeastSpacingApart ==
  (call = "tick" /\ "probe" \in Attempts /\ tr.since >= 0) =>
    tr.since >= PROBE_SPACING_MS

\* C27: when every candidate has been probed without success, no probe is
\* performed for at least PROBE_BACKOFF_MS after the exhaustion is detected:
\* the probe that restarts the sweep at the first candidate comes at least
\* that long after the last probe of the sweep before.
C27_BackoffAfterExhaustion ==
  (call = "tick" /\ "probe" \in Attempts /\ nprobes > Len(probeList) /\ probeIdx = 1) =>
    tr.since >= PROBE_BACKOFF_MS

\* the cached body of the index of root r in the files fs; NoBody if none
CachedIndex(fs, r) ==
  IF sanitizeKey(SearchUrl(r)) \in DOMAIN fs THEN fs[sanitizeKey(SearchUrl(r))].body
  ELSE NoBody

\* a step in which the candidate r is probed, before being the cached body
\* of its index at the start of the step and after the one at its end (the
\* body fetched, when the fetch succeeded): a body that parses is accepted
\* without a fetch, any other falls through to the fetch of the index of r,
\* and r is confirmed only if one of the two parses
ProbeStepOf(r, before, after) ==
  /\ Parses(before) => WORK_ROOT' = r /\ tr'.fetches = << >>
  /\ ~Parses(before) => tr'.fetches = << SearchUrl(r) >>
  /\ (~Parses(before) /\ ~Parses(after)) => WORK_ROOT' = EmptyStr
  /\ WORK_ROOT' # EmptyStr => WORK_ROOT' = r /\ (Parses(before) \/ Parses(after))

\* C28: a candidate becomes the confirmed root only in a probe step in which
\* its index body, read from the cache or fetched from the network, parsed;
\* a candidate whose cached and fetched bodies are both unparseable or
\* absent is not accepted, and an unparseable cached body falls through to
\* a network fetch.
C28_RootOnlyOnParsedIndex ==
  [][ /\ (WORK_ROOT = EmptyStr /\ WORK_ROOT' # EmptyStr) =>
           (call' = "tick" /\ tr'.attempts = << "probe" >>)
      /\ (call' = "tick" /\ tr'.attempts = << "probe" >>) =>
           ProbeStepOf(probeList'[probeIdx'],
                       CachedIndex(files, probeList'[probeIdx']),
                       CachedIndex(files', probeList'[probeIdx'])) ]_vars

\* after a restart a root has been confirmed from the cache, without a
\* fetch, while the unparseable body of another candidate is in the cache
C28_Witness ==
  /\ call = "tick" /\ "probe" \in Wins /\ tr.fetches = << >>
  /\ \E r \in BaseCandidates :
       r # WORK_ROOT /\ CachedIndex(files, r) # NoBody /\ ~Parses(CachedIndex(files, r))

\* an entry of modification time mtime is older than maxAge ms at nowt
OlderThan(nowt, mtime, maxAge) == nowt - mtime > Val32(maxAge) \div 1000

\* the files after the write of the last call and before its prune
AsWritten ==
  PutFile(files, sanitizeKey(tr'.cache.url),
          [body |-> tr'.cache.body, mtime |-> TimeNow([clk |-> clk'])])

\* the entries of fs within the age limit at the time of the last call
WithinAge(fs) ==
  { p \in DOMAIN fs : ~OlderThan(TimeNow([clk |-> clk']), fs[p].mtime, cacheMaxAgeMs') }

Within(fs, ps) == [p \in ps |-> fs[p]]

\* C29: after every completed cacheWrite, the clock and the modification
\* times being valid (not zero), no entry older than the configured max age
\* remains and the entries total at most cacheMaxBytes; age-expired entries
\* are removed before capacity is considered: an entry within the age limit
\* goes only if the entries within the age limit exceed a capacity limit.
C29_PruneByAgeThenCapacity ==
  [][ (/\ call' = "cacheWrite" /\ tr'.cache.ok
       /\ TimeNow([clk |-> clk']) > 0
       /\ \A p \in DOMAIN AsWritten : AsWritten[p].mtime > 0) =>
        /\ DOMAIN files' \subseteq WithinAge(AsWritten)
        /\ dirSize(files') <= cacheMaxBytes'
        /\ (/\ Cardinality(WithinAge(AsWritten)) <= cacheMaxFiles'
            /\ dirSize(Within(AsWritten, WithinAge(AsWritten))) <= cacheMaxBytes') =>
               DOMAIN files' = WithinAge(AsWritten) ]_vars

\* ------------------------------------------------------------------------
\* C30
\* ------------------------------------------------------------------------
\* the tick made one attempt of this kind, which went to the cache for a body
FetchedBy(kind) == call = "tick" /\ tr.attempts = << kind >> /\ tr.steps # << >>

TtlOf(kind) == IF kind = "resolve" THEN TTL_SEARCH_MS ELSE TTL_BYID_MS

LastStep == tr.steps[Len(tr.steps)]

\* the steps are a fresh strict read alone, or a strict read that was not
\* fresh and a GET that succeeded, or those two failing and a stale read
StepsInOrder ==
  \/ Len(tr.steps) = 1 /\ tr.steps[1].ok /\ tr.fetches = << >>
  \/ /\ Len(tr.steps) = 2
     /\ ~tr.steps[1].ok
     /\ tr.steps[2].op = "get" /\ tr.steps[2].ok
     /\ tr.fetches = << tr.steps[1].url >>
  \/ /\ Len(tr.steps) = 3
     /\ ~tr.steps[1].ok
     /\ tr.steps[2].op = "get" /\ ~tr.steps[2].ok
     /\ tr.steps[3].op = "stale"
     /\ tr.fetches = << tr.steps[1].url >>

\* C30: in every resolve or load attempt the first step is the strict cache
\* read (TTL 6 h for the index, 2 min for a per-title document); the network
\* fetch is issued only when that read reports not fresh; the stale read is
\* made, and its body used, only after that fetch has failed; and the attempt
\* fails on fetch only when both the fetch and the stale read fail.
C30_FetchOnlyWhenNotFreshStaleOnlyAfterFailure ==
  /\ TTL_SEARCH_MS = W32(6 * 60 * 60 * 1000) /\ TTL_BYID_MS = W32(2 * 60 * 1000)
  /\ \A kind \in { "resolve", "load" } :
       FetchedBy(kind) =>
         /\ tr.steps[1].op = "strict" /\ tr.steps[1].maxAgeMs = TtlOf(kind)
         /\ \A i \in 1..Len(tr.steps) : tr.steps[i].url = tr.steps[1].url
         /\ StepsInOrder
         /\ ~LastStep.ok => kind \notin Wins /\ ~tr.scanned
         /\ LastStep.ok /\ kind = "resolve" =>
              tr.scanned /\ tr.scan.entries = LastStep.body.entries
         /\ LastStep.ok /\ kind = "load" /\ Parses(LastStep.body) =>
              gameTitle = LastStep.body.doc.game_title

\* a load whose strict read was not fresh and whose fetch failed installs the
\* boards of the stale body
C30_Witness ==
  /\ FetchedBy("load") /\ Len(tr.steps) = 3 /\ LastStep.ok
  /\ "load" \in Wins

\* ------------------------------------------------------------------------
\* C31
\* ------------------------------------------------------------------------
\* the last call was a strict cache read that reported its entry fresh
StrictFresh == call = "cacheRead" /\ tr.steps # << >> /\ tr.steps[1].ok

\* the entry the last strict read looked at
StrictEntry == files[sanitizeKey(tr.steps[1].url)]

\* C31: a strict cache read never reports an entry as fresh when its real age
\* (the whole seconds since its modification time, in ms) exceeds the max-age
\* it was given, whatever the age, also when the age in ms is 2^32 or more.
C31_StrictReadNeverFreshBeyondMaxAge ==
  StrictFresh =>
    ~OlderThan(TimeNow([clk |-> clk]), StrictEntry.mtime, tr.steps[1].maxAgeMs)

\* ------------------------------------------------------------------------
\* C32
\* ------------------------------------------------------------------------
\* the entries of the index last scored that reach the acceptance threshold
Eligible ==
  { k \in DOMAIN io.arg.index :
      io.arg.index[k].has_id /\ io.out.scores[k] >= MIN_ACCEPT_SCORE }

\* entry j comes before entry k in the order of the selection: higher score;
\* then normalized name length closer to the query's; then first token equal
\* to the query's first token; then shorter display name
Precedes(j, k) ==
  LET ej == io.arg.index[j]
      ek == io.arg.index[k]
      sj == io.out.scores[j]
      sk == io.out.scores[k]
      dj == KeyDistance(ej.name, normKey(io.arg.query))
      dk == KeyDistance(ek.name, normKey(io.arg.query))
      fj == FirstTokenSame(tokenize(io.arg.query), tokenize(ej.name))
      fk == FirstTokenSame(tokenize(io.arg.query), tokenize(ek.name))
  IN  \/ sj > sk
      \/ sj = sk /\ dj < dk
      \/ sj = sk /\ dj = dk /\ fj /\ ~fk
      \/ sj = sk /\ dj = dk /\ fj = fk /\ Len(ej.name) < Len(ek.name)

\* the entry selected is entry k of the index
SelectedIs(k) ==
  /\ io.out.scan.best.id = io.arg.index[k].title_id
  /\ io.out.scan.best.name = io.arg.index[k].name
  /\ io.out.scan.best.score = io.out.scores[k]

\* the same entries in every order
Reordered ==
  { y \in Arrangements({ io.arg.index[k] : k \in DOMAIN io.arg.index }, Len(io.arg.index)) :
      Len(y) = Len(io.arg.index) /\ Distinct(y) }

\* C32: resolution succeeds only if some entry scores at least 65; the entry
\* selected is the maximum of the eligible entries under the order (score,
\* closeness of normalized name length, first token, shorter name); and the
\* outcome is the same in whatever order the entries appear in the index.
C32_BestIsMaximumInAnyOrder ==
  Applied("resolve") =>
    /\ io.out.scan.ok => Eligible # {}
    /\ io.out.scan.ok =>
         \E k \in Eligible : SelectedIs(k) /\ \A j \in Eligible : ~Precedes(j, k)
    /\ \A y \in Reordered :
         /\ ResolveOf(io.arg.query, y).ok = io.out.scan.ok
         /\ ResolveOf(io.arg.query, y).best.id = io.out.scan.best.id
         /\ ResolveOf(io.arg.query, y).best.name = io.out.scan.best.name

\* ------------------------------------------------------------------------
\* C33
\* ------------------------------------------------------------------------
\* the step is a tick of the active engine that switches the board
BoardSwitched ==
  /\ call' = "tick" /\ isActive(Cur)
  /\ curBoard' # curBoard \/ lastBoardSwitch' # lastBoardSwitch

\* the scroll offset the tick at clk.now looks at: the offset after its own
\* scroll step, if it makes one
ScrollSeen ==
  IF ~Lt32(Sub32(clk.now, lastStep), W32(STEP_MS)) THEN scrollY + PIXELS_PER_STEP
  ELSE scrollY

\* C33: while active, a board switch happens only on a tick where the last
\* row of the current board has scrolled above the content cutoff and at
\* least BOARD_MIN_DWELL_MS (3000 ms) have passed since the previous board
\* switch or load (whose time lastBoardSwitch holds); the switch resets the
\* scroll to 0 and, with more than one board, moves to another board.
C33_BoardSwitchAfterScrollAndDwell ==
  [][ /\ BoardSwitched =>
          /\ BOARD_MIN_DWELL_MS = 3000
          /\ LINE_H * (Len(boards[curBoard + 1].rows) - 1) + (SCR_H - 2) - ScrollSeen
               - ASCENT_5x8 < CONTENT_TOP + LINE_H
          /\ Le32(W32(BOARD_MIN_DWELL_MS), Sub32(clk.now, lastBoardSwitch))
          /\ scrollY' = 0
          /\ boards' = boards
          /\ curBoard' \in 0..(Len(boards) - 1)
          /\ Len(boards) > 1 => curBoard' # curBoard
          /\ lastBoardSwitch' = clk.now
      /\ (call' = "tick" /\ "load" \in { tr'.wins[i] : i \in 1..Len(tr'.wins) }) =>
          lastBoardSwitch' = clk'.now ]_vars

\* a board switch has just been made by a tick that attempted nothing
C33_Witness ==
  /\ call = "tick" /\ isActive(Cur) /\ tr.attempts = << >>
  /\ scrollY = 0 /\ lastBoardSwitch = clk.now /\ clk.el >= BOARD_MIN_DWELL_MS

\* ------------------------------------------------------------------------
\* C34, C35
\* ------------------------------------------------------------------------
\* the time in ms since the last board switch or load, at a tick at clk.now
\* (lastBoardSwitch is the time of the last of them: lines 940, 1076)
SinceSwitch == Sub32(clk.now, lastBoardSwitch)

\* a tick of the active engine less than FREEZE_MS after the last switch or load
TickInFreeze ==
  call' = "tick" /\ isActive(Cur) /\ Lt32(SinceSwitch, W32(FREEZE_MS))

\* a tick of the active engine FREEZE_MS or more after the last switch or load
TickAfterFreeze ==
  call' = "tick" /\ isActive(Cur) /\ ~Lt32(SinceSwitch, W32(FREEZE_MS))

\* a tick during the freeze, the fetch gate open, with a variant to load
LoadPendingInFreeze ==
  /\ call' = "tick" /\ Len(curApp) > 0 /\ resolved /\ ~loaded
  /\ curTitleIdx >= 0 /\ curTitleIdx < Len(titlePool)
  /\ Lt32(SinceSwitch, W32(FREEZE_MS))
  /\ ~FetchGated(clk.now, lastFetchMs)

\* C34: after a board switch or a successful load at time t, no tick before
\* t + FREEZE_MS (750 ms) advances the scroll offset or switches the board,
\* while a pending load is still attempted during the freeze.
C34_NoScrollNoSwitchInFreeze ==
  [][ /\ TickInFreeze =>
          /\ FREEZE_MS = 750
          /\ scrollY' = scrollY /\ curBoard' = curBoard
          /\ lastBoardSwitch' = lastBoardSwitch
      /\ LoadPendingInFreeze => tr'.attempts = << "load" >> ]_vars

\* C35: the freeze is relative to the time of the last board switch or load
\* for every value of the 32-bit clock: freezeUntilMs is that time plus
\* FREEZE_MS modulo 2^32, the active engine is frozen on a tick (its scroll
\* and board stay) exactly when less than FREEZE_MS have passed, and on the
\* first tick FREEZE_MS or more later the scroll moves again.
C35_FreezeLastsExactlyFreezeMs ==
  [][ /\ (call' = "tick" /\ isActive(Cur)) =>
          freezeUntilMs = Add32(lastBoardSwitch, W32(FREEZE_MS))
      /\ TickInFreeze => scrollY' = scrollY /\ curBoard' = curBoard
      /\ (TickAfterFreeze /\ ~Lt32(Sub32(clk.now, lastStep), W32(STEP_MS))) =>
          scrollY' # scrollY \/ lastBoardSwitch' # lastBoardSwitch ]_vars

\* ------------------------------------------------------------------------
\* C36
\* ------------------------------------------------------------------------
\* the step is a tick of the active engine that advances the variant
VariantAdvanced ==
  call' = "tick" /\ isActive(Cur) /\ (curTitleIdx' # curTitleIdx \/ ~loaded')

\* a tick with a variant to load and the fetch gate open
LoadPending ==
  /\ call' = "tick" /\ Len(curApp) > 0 /\ Len(WORK_ROOT) > 0 /\ resolved /\ ~loaded
  /\ curTitleIdx >= 0 /\ curTitleIdx < Len(titlePool)
  /\ ~FetchGated(clk.now, lastFetchMs)

\* C36: a variant advance happens only when the pool holds more than one id
\* and at least MODEL_DWELL_MS (12000 ms) have passed since the last
\* successful load (the last attempt made, at lastAt); it moves curTitleIdx to
\* (curTitleIdx + 1) mod pool size and marks the model not loaded; the next
\* eligible tick attempts to load exactly titlePool[curTitleIdx]; and with a
\* pool of one id the model is never marked for reload.
C36_VariantAdvanceAfterDwell ==
  [][ /\ VariantAdvanced =>
          /\ MODEL_DWELL_MS = 12000
          /\ Len(titlePool) > 1
          /\ "load" \in won /\ clk.el - lastAt >= MODEL_DWELL_MS
          /\ curTitleIdx' = (curTitleIdx + 1) % Len(titlePool)
          /\ ~loaded' /\ resolved' /\ titlePool' = titlePool
      /\ LoadPending =>
          /\ tr'.attempts = << "load" >>
          /\ tr'.steps # << >>
          /\ tr'.steps[1].url = ByIdUrl(WORK_ROOT, titlePool[curTitleIdx + 1])
      /\ (call' = "tick" /\ isActive(Cur) /\ Len(titlePool) = 1) => loaded' ]_vars

\* the variant has been advanced from the last id of the pool to the first
\* by a board switch that was not the first since the load
C36_Witness ==
  /\ call = "tick" /\ resolved /\ ~loaded /\ Len(titlePool) > 1
  /\ curTitleIdx = 0 /\ scrollY = 0 /\ lastBoardSwitch = clk.now
  /\ clk.el - lastAt >= MODEL_DWELL_MS

\* ------------------------------------------------------------------------
\* C37
\* ------------------------------------------------------------------------
\* the rows of a board after ROW_CAP - 1 rows of a long scoreboard have been
\* pushed, and the two rows of the scoreboard that come next
AlmostFull ==
  [i \in 1..(ROW_CAP - 1) |-> ParseRow(ScalarRow(<< "n" >>), << >>, -1, -1, i - 1)]

TwoMore == << ScalarRow(<< "n" >>), ScalarRow(<< "n" >>) >>

\* C37: in every reachable state, loaded implies that the model has at least
\* one board, that every board has at least one and at most 1000 rows (of the
\* last two rows of a scoreboard of 1001 rows only the first is pushed) and that
\* 0 <= curBoard < number of boards; a load that has just got a document
\* yielding zero non-empty boards leaves loaded false.
C37_LoadedModelIsWellFormed ==
  /\ loaded =>
       /\ Len(boards) >= 1
       /\ \A b \in 1..Len(boards) :
            Len(boards[b].rows) >= 1 /\ Len(boards[b].rows) <= ROW_CAP
       /\ curBoard >= 0 /\ curBoard < Len(boards)
  /\ (FetchedBy("load") /\ LastStep.ok /\ LastStep.body = DocHollow) => ~loaded
  /\ call = "boot" =>
       /\ ROW_CAP = 1000
       /\ Len(ParseRows(TwoMore, << >>, -1, -1, AlmostFull)) = ROW_CAP

\* a document with one usable board among three scoreboards has been loaded
C37_Witness ==
  /\ FetchedBy("load") /\ LastStep.ok /\ LastStep.body = DocMixed
  /\ loaded /\ Len(boards) = 1

\* ------------------------------------------------------------------------
\* C38
\* ------------------------------------------------------------------------
\* The host sets no name, a name of punctuation only, or a title, while the
\* server and SPIFFS answer as they like.
BlankNames == { EmptyStr, QBangs, QHalo }

BlankQuery == OnAppNameIn(BlankNames)

NextBlank == \/ Tick \/ Advance \/ BlankQuery

SpecBlank == Init /\ [][NextBlank]_vars

\* the name set is not empty and its normalized key is
KeylessName == Len(curApp) > 0 /\ Len(normKey(curApp)) = 0

\* C38: without a valid query the engine never becomes active and never
\* fetches an index for resolution: with an empty name a tick makes no
\* attempt, no fetch and no change of state; with a non-empty name whose
\* normalized key is empty a resolution attempt fails before any cache read
\* or network fetch.
C38_NoValidQueryNoResolution ==
  [][ /\ (call' = "tick" /\ Len(curApp) = 0) =>
          /\ tr'.attempts = << >> /\ tr'.fetches = << >>
          /\ UNCHANGED << engine, files, clk >>
      /\ (call' = "tick" /\ KeylessName /\ "resolve" \in { tr'.attempts[i] : i \in 1..Len(tr'.attempts) }) =>
          /\ tr'.steps = << >> /\ tr'.fetches = << >> /\ ~tr'.scanned
          /\ tr'.wins = << >>
          /\ ~resolved' /\ files' = files
      /\ (Len(curApp') = 0 \/ Len(normKey(curApp')) = 0) =>
          ~resolved' /\ ~loaded' ]_vars

\* a resolution has been attempted for a name without a key
C38_Witness ==
  call = "tick" /\ KeylessName /\ Len(WORK_ROOT) > 0 /\ tr.attempts = << "resolve" >>

\* ------------------------------------------------------------------------
\* C39
\* ------------------------------------------------------------------------
\* what a step from such a state does, unless it is one of the calls in ends
HoldsVariantUntil(ends) ==
  (AwaitingVariant /\ call' \notin ends) =>
     /\ curTitleIdx' = curTitleIdx /\ titlePool' = titlePool
     /\ "load" \in { tr'.attempts[i] : i \in 1..Len(tr'.attempts) } =>
          /\ tr'.attempts = << "load" >>
          /\ tr'.steps # << >>
          /\ \A i \in 1..Len(tr'.steps) :
               tr'.steps[i].url = ByIdUrl(WORK_ROOT, titlePool[curTitleIdx + 1])
     /\ loaded' <=> "load" \in { tr'.wins[i] : i \in 1..Len(tr'.wins) }

\* the query changes in this step
QueryChanges == curApp' # curApp

\* C39 as stated: after a variant advance has marked the model not loaded,
\* curTitleIdx does not change until a load of titlePool[curTitleIdx]
\* succeeds or the query changes; every load attempt in between targets that
\* id and isActive() is false throughout.
C39_VariantHeldUntilLoadOrQuery ==
  [][ ~QueryChanges => HoldsVariantUntil({}) ]_vars

\* C39 amended: the same until a load of titlePool[curTitleIdx] succeeds,
\* the query changes or begin() is called.
C39_VariantHeldUntilLoadQueryOrBegin ==
  [][ ~QueryChanges => HoldsVariantUntil({ "begin" }) ]_vars

\* the load of the variant advanced to has failed again, several ticks after
\* the advance
C39_Witness ==
  /\ call = "tick" /\ AwaitingVariant /\ tr.attempts = << "load" >>
  /\ Len(tr.steps) = 3 /\ ~LastStep.ok
  /\ Sub32(clk.now, lastBoardSwitch) = W32(5 * FETCH_GAP_MS)

\* ------------------------------------------------------------------------
\* C40
\* ------------------------------------------------------------------------
\* the time of the last probe step, the last call of stepProbeWorkRoot that
\* went past line 451: it left nextProbeAt at its time plus the back-off
\* with the cursor at 0 (455-456), or plus the spacing with the cursor
\* behind a candidate (452, 460)
LastProbeStep ==
  IF probeIdx = 0 THEN Sub32(nextProbeAt, W32(PROBE_BACKOFF_MS))
  ELSE Sub32(nextProbeAt, W32(PROBE_SPACING_MS))

\* tick is called with a title, no confirmed root, a sweep under way and the
\* 100 ms gate open, PROBE_BACKOFF_MS or more after the last probe step
ProbeOverdue ==
  /\ call' = "tick" /\ Len(curApp) > 0 /\ Len(WORK_ROOT) = 0 /\ probeList # << >>
  /\ ~FetchGated(clk.now, lastFetchMs)
  /\ Le32(W32(PROBE_BACKOFF_MS), Sub32(clk.now, LastProbeStep))

\* C40: while no root is confirmed, the network is ready and tick keeps being
\* called, the gap between consecutive probe steps never exceeds the back-off
\* interval (plus tick gating), for every value of the 32-bit clock: a tick
\* that comes PROBE_BACKOFF_MS or more after the last probe step is a probe
\* step itself (the network is ready in every tick of the specification).
C40_ProbeGapBoundedAcrossWrap ==
  [][ ProbeOverdue => nextProbeAt' # nextProbeAt ]_vars

=========================================================================
